---- MODULE Spec2Model ----
(***************************************************************************)
(* Model of the Foxy Fabrications admin backend: session-based             *)
(* authentication, the per-handler authorization gate, the product, order  *)
(* and quote managers over the document store, and the pagination engine.  *)
(*                                                                         *)
(* Conventions.  A Rust String on which the code performs string           *)
(* operations is a sequence of one-character strings; a String the code    *)
(* only moves around or compares for equality is a TLA+ string.            *)
(* Option<T> is a sequence of length at most one: <<>> is None, <<x>> is   *)
(* Some(x).  A collection of the store is the sequence of its documents in *)
(* natural order.                                                          *)
(***************************************************************************)
EXTENDS Integers, Sequences, FiniteSets, TLC

VARIABLES
    session,           \* session id -> Option<user id>: the identity binding
    products,          \* collection "products"
    orders,            \* collection "orders" (active)
    completed_orders,  \* collection "completed_orders"
    badge_quotes,      \* collection "badge_quotes"
    req,               \* the request handled last
    resp,              \* the response it got
    steps              \* the steps the handler executed, in order

vars == <<session, products, orders, completed_orders, badge_quotes, req, resp, steps>>

stores == <<products, orders, completed_orders, badge_quotes>>

-----------------------------------------------------------------------------
(* Bounds of the model *)

\* number of browser sessions
NumSessions == 1

\* longest `next` value a login form submits
MaxNextLen == 3

Sessions == 1..NumSessions

-----------------------------------------------------------------------------
(* Strings *)

Some(x) == <<x>>

IsSome(o) == Len(o) > 0

\* str::starts_with
StartsWith(s, p) == Len(s) >= Len(p) /\ SubSeq(s, 1, Len(p)) = p

\* every string over alphabet A of length at most n
RECURSIVE StringsUpTo(_, _)
StringsUpTo(A, n) ==
    IF n = 0 THEN {<<>>}
    ELSE LET shorter == StringsUpTo(A, n - 1)
         IN  shorter \cup {Append(s, c) : s \in shorter, c \in A}

LoginPath == <<"/", "l", "o", "g", "i", "n">>

RootPath == <<"/">>

ProductsPath == <<"/", "p", "r", "o", "d", "u", "c", "t", "s">>

OrdersPath == <<"/", "o", "r", "d", "e", "r", "s">>

QuotesPath == <<"/", "q", "u", "o", "t", "e", "s">>

ProductsEditPrefix == ProductsPath \o <<"/", "e", "d", "i", "t", "/">>

ProductsUpdatedPath == ProductsPath \o
    <<"?", "s", "u", "c", "c", "e", "s", "s", "=", "u", "p", "d", "a", "t", "e", "d">>

NextParam == <<"?", "n", "e", "x", "t", "=">>



-----------------------------------------------------------------------------
(* Password codec (auth.rs) *)

\* Argon2 digest of a password under a salt: an injective function of both
Argon2(password, salt) == <<password, salt>>

\* a PHC hash string: algorithm, salt and digest, encoded together
hash_password(password, salt) ==
    [phc |-> TRUE, salt |-> salt, digest |-> Argon2(password, salt)]

\* a stored string that does not parse as a PHC hash
MalformedHash == [phc |-> FALSE, salt |-> "", digest |-> <<"", "">>]

verify_password_without_digest(submitted, stored_hash) == stored_hash.phc

verify_password(submitted, stored_hash) ==
    IF ~stored_hash.phc
    THEN FALSE
    ELSE Argon2(submitted, stored_hash.salt) = stored_hash.digest

-----------------------------------------------------------------------------
(* Users (models.rs), seeded out of band and never written by this program *)

Users == <<
    [id |-> 1, username |-> "admin", is_admin |-> TRUE,
     password_hash |-> hash_password("pw-admin", "s1")],
    [id |-> 2, username |-> "staff", is_admin |-> FALSE,
     password_hash |-> hash_password("pw-staff", "s2")],
    [id |-> 3, username |-> "legacy", is_admin |-> TRUE,
     password_hash |-> MalformedHash] >>

UserIds == {Users[i].id : i \in DOMAIN Users}

\* the usernames and passwords a login form submits
Usernames == {"admin", "staff", "legacy", "ghost"}

Passwords == {"pw-admin", "pw-staff", ""}

\* Collection::find_one(doc! { "username": .. }) on the users collection
FindUserByName(username) ==
    LET hits == {i \in DOMAIN Users : Users[i].username = username}
    IN  IF hits = {} THEN <<>>
        ELSE Some(Users[CHOOSE i \in hits : \A j \in hits : i <= j])

\* MongoAuth::get_user
get_user(user_id) ==
    LET hits == {i \in DOMAIN Users : Users[i].id = user_id}
    IN  IF hits = {} THEN <<>>
        ELSE Some(Users[CHOOSE i \in hits : \A j \in hits : i <= j])

\* MongoAuth::authenticate, for a users collection that answers: the user,
\* and the steps executed
authenticate_without_verify(creds) ==
    LET maybe == FindUserByName(creds.username)
    IN  [user |-> maybe, trace |-> <<"users.find_one">>]

authenticate(creds) ==
    LET maybe == FindUserByName(creds.username)
    IN  IF IsSome(maybe)
        THEN IF verify_password(creds.password, maybe[1].password_hash)
             THEN [user |-> maybe, trace |-> <<"users.find_one", "verify_password">>]
             ELSE [user |-> <<>>, trace |-> <<"users.find_one", "verify_password">>]
        ELSE [user |-> <<>>, trace |-> <<"users.find_one">>]

-----------------------------------------------------------------------------
(* Authorization gate (user_state.rs, models.rs) *)

\* UserState::new
UserStateNew(is_authenticated, username, is_admin) ==
    [is_authenticated |-> is_authenticated, logged_in |-> is_authenticated,
     username |-> username, is_admin |-> is_admin]

\* UserState::default
UserStateDefault ==
    [is_authenticated |-> FALSE, logged_in |-> FALSE, username |-> "", is_admin |-> FALSE]

\* the user the session layer hands to a handler as auth.user
AuthUser(s) == IF IsSome(session[s]) THEN get_user(session[s][1]) ELSE <<>>

extract_user_state_all_admin(auth_user) ==
    IF IsSome(auth_user)
    THEN UserStateNew(TRUE, auth_user[1].username, TRUE)
    ELSE UserStateDefault

extract_user_state(auth_user) ==
    IF IsSome(auth_user)
    THEN UserStateNew(TRUE, auth_user[1].username, auth_user[1].is_admin)
    ELSE UserStateDefault

-----------------------------------------------------------------------------
(* Responses *)

NoPage == [template |-> "none"]

NoJson == [success |-> FALSE, message |-> "", id |-> <<>>]

\* axum Redirect::to: 303 See Other with a Location header
Redirect(location) ==
    [kind |-> "redirect", status |-> 303, location |-> location, text |-> "",
     page |-> NoPage, json |-> NoJson]

\* (StatusCode, &str)
Text(status, text) ==
    [kind |-> "text", status |-> status, location |-> <<>>, text |-> text,
     page |-> NoPage, json |-> NoJson]

\* Html(template.render())
Html(page) ==
    [kind |-> "html", status |-> 200, location |-> <<>>, text |-> "",
     page |-> page, json |-> NoJson]

\* Json(..): 200 OK unless a status is attached
Json(success, message, id) ==
    [kind |-> "json", status |-> 200, location |-> <<>>, text |-> "",
     page |-> NoPage, json |-> [success |-> success, message |-> message, id |-> id]]

Forbidden == Text(403, "Access denied - Admin privileges required")

\* the text of an error of the store driver, as its Display prints it
StoreError == "store unreachable"

\* format!("<what>: {}", e)
DatabaseError(what) == what \o ": " \o StoreError

Request(route, s, arg) == [route |-> route, sid |-> s, arg |-> arg]

\* a step of a handler that ended in an error of the store or the file system
Failed(step) == step \o ":err"

\* the step as the trace records it, given the steps that fail
Ran(step, faults) == IF step \in faults THEN Failed(step) ELSE step

-----------------------------------------------------------------------------
(* Dashboard (main.rs) and calculator (handlers/calculator.rs) *)

dashboard_response_without_admin_check(user_state) ==
    IF ~user_state.is_authenticated THEN Redirect(LoginPath)
    ELSE Redirect(ProductsPath)

dashboard_response(user_state) ==
    IF ~user_state.is_authenticated THEN Redirect(LoginPath)
    ELSE IF ~user_state.is_admin THEN Forbidden
    ELSE Redirect(ProductsPath)

dashboard(s) ==
    /\ req' = Request("GET /", s, <<>>)
    /\ resp' = dashboard_response(extract_user_state(AuthUser(s)))
    /\ steps' = <<"gate">>
    /\ UNCHANGED <<session, stores>>

show_calculator(s) ==
    /\ req' = Request("GET /calculator", s, <<>>)
    /\ resp' = Html([template |-> "calculator",
                     user_state |-> extract_user_state(AuthUser(s))])
    /\ steps' = <<"render">>
    /\ UNCHANGED <<session, stores>>

-----------------------------------------------------------------------------
(* Login and logout (handlers/auth.rs) *)

validate_redirect_url_slash_only(url) == StartsWith(url, <<"/">>)

validate_redirect_url(url) ==
    StartsWith(url, <<"/">>) /\ ~StartsWith(url, <<"/", "/">>)

get_safe_redirect_url(query) ==
    IF IsSome(query) /\ validate_redirect_url(query[1])
    THEN query[1]
    ELSE ProductsPath

\* the characters a `next` value is made of
NextAlphabet == {"/", "h", ":"}

\* Option<String>: absent, or any string up to the bound
NextValues == {<<>>} \cup {Some(u) : u \in StringsUpTo(NextAlphabet, MaxNextLen)}

unwrap_or_default(o) == IF IsSome(o) THEN o[1] ELSE <<>>

LoginPage(error, next_url, user_state) ==
    [template |-> "login", error |-> error, next_url |-> next_url,
     user_state |-> user_state]

show_login_form(s, next) ==
    /\ req' = Request("GET /login", s, [next |-> next])
    /\ resp' = Html(LoginPage("", unwrap_or_default(next),
                              extract_user_state(AuthUser(s))))
    /\ steps' = <<"render">>
    /\ UNCHANGED <<session, stores>>

\* POST /login.  store_ok: the users collection answers the lookup;
\* session_ok: the session layer stores the new binding.
handle_login(s, creds, store_ok, session_ok) ==
    LET next_url == unwrap_or_default(creds.next)
        auth     == authenticate(creds)
    IN  /\ req' = Request("POST /login", s, creds)
        /\ IF ~store_ok
           THEN \* Err(_)
                /\ resp' = Html(LoginPage("Server error", next_url,
                                          extract_user_state(AuthUser(s))))
                /\ steps' = <<"users.find_one">>
                /\ UNCHANGED session
           ELSE IF IsSome(auth.user)
           THEN IF ~session_ok
                THEN \* auth.login failed: auth.user is the new user, the
                     \* session keeps the binding it had
                     /\ resp' = Html(LoginPage("Internal error", next_url,
                                               extract_user_state(auth.user)))
                     /\ steps' = auth.trace \o <<"login">>
                     /\ UNCHANGED session
                ELSE /\ resp' = Redirect(get_safe_redirect_url(creds.next))
                     /\ steps' = auth.trace \o <<"login">>
                     /\ session' = [session EXCEPT ![s] = Some(auth.user[1].id)]
           ELSE \* Ok(None)
                /\ resp' = Html(LoginPage("Bad credentials", next_url,
                                          extract_user_state(AuthUser(s))))
                /\ steps' = auth.trace
                /\ UNCHANGED session
        /\ UNCHANGED stores

handle_logout_keeping_session(s, session_ok) ==
    /\ req' = Request("GET /logout", s, <<>>)
    /\ resp' = Redirect(RootPath)
    /\ steps' = IF session_ok THEN <<"logout">> ELSE <<"logout", "is_err">>
    /\ UNCHANGED <<session, stores>>

\* GET /logout.  session_ok: the session layer flushes the session; when it
\* fails the binding may or may not have been cleared.
handle_logout(s, session_ok) ==
    /\ req' = Request("GET /logout", s, <<>>)
    /\ resp' = Redirect(RootPath)
    /\ steps' = IF session_ok THEN <<"logout">> ELSE <<"logout", "is_err">>
    /\ IF session_ok
       THEN session' = [session EXCEPT ![s] = <<>>]
       ELSE \E cleared \in BOOLEAN :
                session' = IF cleared THEN [session EXCEPT ![s] = <<>>] ELSE session
    /\ UNCHANGED stores

-----------------------------------------------------------------------------
(* Numbers in strings *)

Digits == <<"0", "1", "2", "3", "4", "5", "6", "7", "8", "9">>

IsDigit(c) == \E i \in DOMAIN Digits : Digits[i] = c

DigitVal(c) == (CHOOSE i \in DOMAIN Digits : Digits[i] = c) - 1

AllDigits(s) == \A i \in DOMAIN s : IsDigit(s[i])

RECURSIVE DecimalValue(_)
DecimalValue(s) ==
    IF s = <<>> THEN 0
    ELSE 10 * DecimalValue(SubSeq(s, 1, Len(s) - 1)) + DigitVal(s[Len(s)])

RECURSIVE Pow10(_)
Pow10(n) == IF n <= 0 THEN 1 ELSE 10 * Pow10(n - 1)

\* str::trim, for the whitespace of the model's alphabet
RECURSIVE TrimStart(_)
TrimStart(s) == IF s # <<>> /\ s[1] = " " THEN TrimStart(Tail(s)) ELSE s

RECURSIVE TrimEnd(_)
TrimEnd(s) ==
    IF s # <<>> /\ s[Len(s)] = " " THEN TrimEnd(SubSeq(s, 1, Len(s) - 1)) ELSE s

Trim(s) == TrimEnd(TrimStart(s))

\* s without its leading zeros
RECURSIVE StripZeros(_)
StripZeros(s) == IF Len(s) > 1 /\ s[1] = "0" THEN StripZeros(Tail(s)) ELSE s

\* digit strings of equal length: a <= b
RECURSIVE DigitsLeq(_, _)
DigitsLeq(a, b) ==
    IF a = <<>> THEN TRUE
    ELSE IF DigitVal(a[1]) < DigitVal(b[1]) THEN TRUE
    ELSE IF DigitVal(a[1]) > DigitVal(b[1]) THEN FALSE
    ELSE DigitsLeq(Tail(a), Tail(b))

I32Max == 2147483647

I32MaxDigits == <<"2", "1", "4", "7", "4", "8", "3", "6", "4", "7">>

I32MinDigits == <<"2", "1", "4", "7", "4", "8", "3", "6", "4", "8">>

\* str::parse::<i32>: an optional sign, then at least one digit, in range
parse_i32(s) ==
    LET signed == s # <<>> /\ s[1] \in {"+", "-"}
        digits == IF signed THEN Tail(s) ELSE s
        neg    == signed /\ s[1] = "-"
        mag    == StripZeros(digits)
        fits   == \/ Len(mag) < Len(I32MaxDigits)
                  \/ Len(mag) = Len(I32MaxDigits)
                     /\ DigitsLeq(mag, IF neg THEN I32MinDigits ELSE I32MaxDigits)
    IN  IF digits = <<>> \/ ~AllDigits(digits) \/ ~fits THEN [ok |-> FALSE, val |-> 0]
        ELSE IF mag = I32MinDigits THEN [ok |-> TRUE, val |-> (0 - I32Max) - 1]
        ELSE [ok |-> TRUE, val |-> IF neg THEN 0 - DecimalValue(mag) ELSE DecimalValue(mag)]

UpperLetters == <<"A", "B", "C", "D", "E", "F", "G", "H", "I", "J", "K", "L", "M",
                  "N", "O", "P", "Q", "R", "S", "T", "U", "V", "W", "X", "Y", "Z">>

LowerLetters == <<"a", "b", "c", "d", "e", "f", "g", "h", "i", "j", "k", "l", "m",
                  "n", "o", "p", "q", "r", "s", "t", "u", "v", "w", "x", "y", "z">>

\* to_ascii_lowercase, for the letters of the model's alphabet
Lower(c) ==
    IF \E i \in DOMAIN UpperLetters : UpperLetters[i] = c
    THEN LowerLetters[CHOOSE i \in DOMAIN UpperLetters : UpperLetters[i] = c]
    ELSE c

LowerStr(s) == [i \in DOMAIN s |-> Lower(s[i])]

BadF64 == [ok |-> FALSE, kind |-> "num", neg |-> FALSE, mant |-> 0, scale |-> 0]

\* index of the first character of s in set C, or Len(s) + 1
FirstIn(s, C) ==
    IF \E i \in DOMAIN s : s[i] \in C
    THEN CHOOSE i \in DOMAIN s : s[i] \in C /\ \A j \in 1..(i - 1) : s[j] \notin C
    ELSE Len(s) + 1

\* str::parse::<f64>: [sign] (inf | infinity | nan | digits [. digits] [e [sign] digits]).
\* The value of a number is mant * 10^(-scale), kept exact.
parse_f64(s) ==
    LET signed == s # <<>> /\ s[1] \in {"+", "-"}
        body   == IF signed THEN Tail(s) ELSE s
        neg    == signed /\ s[1] = "-"
        low    == LowerStr(body)
        epos   == FirstIn(low, {"e"})
        mtext  == SubSeq(low, 1, epos - 1)
        etext  == SubSeq(low, epos + 1, Len(low))
        dot    == FirstIn(mtext, {"."})
        ipart  == SubSeq(mtext, 1, dot - 1)
        fpart  == SubSeq(mtext, dot + 1, Len(mtext))
        hasexp == epos <= Len(low)
        exp    == parse_i32(etext)
    IN  IF low \in {<<"i", "n", "f">>, <<"i", "n", "f", "i", "n", "i", "t", "y">>}
        THEN [ok |-> TRUE, kind |-> "inf", neg |-> neg, mant |-> 0, scale |-> 0]
        ELSE IF low = <<"n", "a", "n">>
        THEN [ok |-> TRUE, kind |-> "nan", neg |-> neg, mant |-> 0, scale |-> 0]
        ELSE IF ~AllDigits(ipart) \/ ~AllDigits(fpart) \/ (ipart = <<>> /\ fpart = <<>>)
        THEN BadF64
        ELSE IF hasexp /\ ~exp.ok
        THEN BadF64
        ELSE [ok |-> TRUE, kind |-> "num", neg |-> neg,
              mant |-> DecimalValue(ipart \o fpart),
              scale |-> Len(fpart) - (IF hasexp THEN exp.val ELSE 0)]

\* x < 0.0
F64Negative(x) ==
    \/ x.kind = "inf" /\ x.neg
    \/ x.kind = "num" /\ x.neg /\ x.mant > 0

\* x > 999999.99, for a number of at most nine significant digits
F64ExceedsMaxPrice(x) ==
    \/ x.kind = "inf" /\ ~x.neg
    \/ /\ x.kind = "num" /\ ~x.neg
       /\ IF x.scale <= 0
          THEN \* an integer: mant * 10^(-scale) >= 1000000
               IF 0 - x.scale > 6 THEN x.mant >= 1
               ELSE x.mant * Pow10(0 - x.scale) >= 1000000
          ELSE IF x.scale > 9 THEN FALSE
          ELSE LET whole == x.mant \div Pow10(x.scale)
                   frac  == x.mant % Pow10(x.scale)
               IN  \/ whole > 999999
                   \/ whole = 999999 /\ frac * 100 > 99 * Pow10(x.scale)

-----------------------------------------------------------------------------
(* Object ids (bson::oid::ObjectId) *)

OidLen == 24

HexLower == {"0", "1", "2", "3", "4", "5", "6", "7", "8", "9", "a", "b", "c", "d", "e", "f"}

HexUpper == {"A", "B", "C", "D", "E", "F"}

\* the hex string of 23 zeros and a last character
OidStr(c) == [i \in 1..OidLen |-> IF i = OidLen THEN c ELSE "0"]

\* ObjectId::parse_str: exactly 24 hex digits of either case; the id is kept
\* as its lower-case hex form, which is what to_hex gives back
parse_str_any_length(s) ==
    IF \A i \in DOMAIN s : s[i] \in HexLower \cup HexUpper
    THEN Some(LowerStr(s))
    ELSE <<>>

parse_str(s) ==
    IF Len(s) = OidLen /\ \A i \in DOMAIN s : s[i] \in HexLower \cup HexUpper
    THEN Some(LowerStr(s))
    ELSE <<>>

to_hex(oid) == oid

-----------------------------------------------------------------------------
(* Store operations on a collection: a sequence of documents with an id *)

Matching(coll, oid) == {i \in DOMAIN coll : coll[i].id = oid}

FirstMatch(coll, oid) == CHOOSE i \in Matching(coll, oid) : \A j \in Matching(coll, oid) : i <= j

\* find_one(doc! { "_id": oid })
find_one(coll, oid) ==
    IF Matching(coll, oid) = {} THEN <<>> ELSE Some(coll[FirstMatch(coll, oid)])

update_one_everywhere(coll, oid, fields) ==
    [coll |-> [i \in DOMAIN coll |->
                  [f \in DOMAIN coll[i] |->
                      IF f \in DOMAIN fields THEN fields[f] ELSE coll[i][f]]],
     matched_count |-> Cardinality(Matching(coll, oid))]

\* update_one(doc! { "_id": oid }, doc! { "$set": fields }): the collection
\* afterwards and matched_count
update_one(coll, oid, fields) ==
    IF Matching(coll, oid) = {}
    THEN [coll |-> coll, matched_count |-> 0]
    ELSE LET i   == FirstMatch(coll, oid)
             old == coll[i]
             new == [f \in DOMAIN old |-> IF f \in DOMAIN fields THEN fields[f] ELSE old[f]]
         IN  [coll |-> [coll EXCEPT ![i] = new], matched_count |-> 1]

RemoveAt(coll, i) == SubSeq(coll, 1, i - 1) \o SubSeq(coll, i + 1, Len(coll))

delete_one_any(coll, oid) ==
    IF coll = <<>> THEN [coll |-> coll, deleted_count |-> 0]
    ELSE [coll |-> Tail(coll), deleted_count |-> 1]

\* delete_one(doc! { "_id": oid }): the collection afterwards and deleted_count
delete_one(coll, oid) ==
    IF Matching(coll, oid) = {}
    THEN [coll |-> coll, deleted_count |-> 0]
    ELSE [coll |-> RemoveAt(coll, FirstMatch(coll, oid)), deleted_count |-> 1]

-----------------------------------------------------------------------------
(* Products (handlers/product_management.rs) *)

normalize_image_url(url) == IF StartsWith(url, <<"/">>) THEN url ELSE <<"/">> \o url

\* ProductDisplay { .. } as list_products and show_edit_form build it
ProductDisplay(p) ==
    [id |-> to_hex(p.id), name |-> p.name, image_url |-> normalize_image_url(p.image_url),
     price |-> p.price, quantity |-> p.quantity, description |-> p.description,
     adoptable |-> p.adoptable]

\* ProductDisplay { .. } as show_edit_form_with_error builds it
ProductDisplayRaw(p) ==
    [id |-> to_hex(p.id), name |-> p.name, image_url |-> p.image_url,
     price |-> p.price, quantity |-> p.quantity, description |-> p.description,
     adoptable |-> p.adoptable]

MaxNameLen == 255

MaxDescriptionLen == 5000

MaxQuantity == 999999

Rejected_as_accepted(msg) == [ok |-> TRUE, err |-> msg, price |-> BadF64, quantity |-> 0]

Rejected(msg) == [ok |-> FALSE, err |-> msg, price |-> BadF64, quantity |-> 0]

\* characters of the model's alphabet that take two bytes in UTF-8
TwoByteChars == {"U+00E9"}

\* str::len: the length in bytes
ByteLen(s) == Len(s) + Cardinality({i \in DOMAIN s : s[i] \in TwoByteChars})

validate_product_form(form) ==
    LET price    == parse_f64(Trim(form.price))
        quantity == parse_i32(Trim(form.quantity))
    IN  IF Trim(form.name) = <<>> THEN Rejected("Product name cannot be empty")
        ELSE IF ByteLen(form.name) > MaxNameLen
        THEN Rejected("Product name must be less than 255 characters")
        ELSE IF ~price.ok THEN Rejected("Price must be a valid number")
        ELSE IF F64Negative(price) THEN Rejected("Price cannot be negative")
        ELSE IF F64ExceedsMaxPrice(price) THEN Rejected("Price cannot exceed 999,999.99")
        ELSE IF ~quantity.ok THEN Rejected("Quantity must be a valid number")
        ELSE IF quantity.val < 0 THEN Rejected("Quantity cannot be negative")
        ELSE IF quantity.val > MaxQuantity THEN Rejected("Quantity cannot exceed 999,999")
        ELSE IF ByteLen(form.description) > MaxDescriptionLen
        THEN Rejected("Description must be less than 5,000 characters")
        ELSE [ok |-> TRUE, err |-> "", price |-> price, quantity |-> quantity.val]

show_edit_form_with_error_redirecting(coll, obj_id, user_state, error_message, store_ok) ==
    Redirect(ProductsUpdatedPath)

\* store_ok: the find_one answers
show_edit_form_with_error(coll, obj_id, user_state, error_message, store_ok) ==
    IF ~store_ok THEN Text(500, DatabaseError("Database error"))
    ELSE LET found == find_one(coll, obj_id)
         IN  IF IsSome(found)
             THEN Html([template |-> "edit_product", product |-> ProductDisplayRaw(found[1]),
                        user_state |-> user_state, error_message |-> error_message])
             ELSE Text(404, "Product not found")

\* GET /products.  find_ok: the query is accepted; collect_ok: the cursor
\* delivers the documents.
list_products(s, find_ok, collect_ok) ==
    LET user_state == extract_user_state(AuthUser(s))
        docs       == IF collect_ok THEN products ELSE <<>>
    IN  /\ req' = Request("GET /products", s, <<>>)
        /\ IF ~user_state.is_authenticated
           THEN resp' = Redirect(LoginPath) /\ steps' = <<"gate">>
           ELSE IF ~user_state.is_admin
           THEN resp' = Forbidden /\ steps' = <<"gate">>
           ELSE IF ~find_ok
           THEN /\ resp' = Html([template |-> "product_management", products |-> <<>>,
                                 user_state |-> user_state, success_message |-> "",
                                 error_message |-> DatabaseError("Database error")])
                /\ steps' = <<"gate", Failed("products.find")>>
           ELSE /\ resp' = Html([template |-> "product_management",
                                 products |-> [i \in DOMAIN docs |-> ProductDisplay(docs[i])],
                                 user_state |-> user_state, success_message |-> "",
                                 error_message |-> ""])
                /\ steps' = <<"gate", "products.find",
                              IF collect_ok THEN "products.collect"
                              ELSE Failed("products.collect")>>
        /\ UNCHANGED <<session, stores>>

\* GET /products/edit/{id}
show_edit_form(s, id, store_ok) ==
    LET user_state == extract_user_state(AuthUser(s))
        obj_id     == parse_str(id)
        found      == find_one(products, obj_id[1])
    IN  /\ req' = Request("GET /products/edit/{id}", s, [id |-> id])
        /\ IF ~user_state.is_authenticated
           THEN resp' = Redirect(LoginPath) /\ steps' = <<"gate">>
           ELSE IF ~user_state.is_admin
           THEN resp' = Forbidden /\ steps' = <<"gate">>
           ELSE IF ~IsSome(obj_id)
           THEN /\ resp' = Text(400, "Invalid product ID")
                /\ steps' = <<"gate", "parse_id">>
           ELSE IF ~store_ok
           THEN /\ resp' = Text(500, DatabaseError("Database error"))
                /\ steps' = <<"gate", "parse_id", Failed("products.find_one")>>
           ELSE /\ resp' = IF IsSome(found)
                           THEN Html([template |-> "edit_product",
                                      product |-> ProductDisplay(found[1]),
                                      user_state |-> user_state, error_message |-> ""])
                           ELSE Text(404, "Product not found")
                /\ steps' = <<"gate", "parse_id", "products.find_one">>
        /\ UNCHANGED <<session, stores>>

\* POST /products/edit/{id}.  write_ok: the update_one is applied;
\* read_ok: the find_one of the error form answers.
update_product(s, id, form, write_ok, read_ok) ==
    LET user_state == extract_user_state(AuthUser(s))
        obj_id     == parse_str(id)
        valid      == validate_product_form(form)
        result     == update_one(products, obj_id[1],
                          [name |-> form.name, price |-> form.price,
                           quantity |-> valid.quantity,
                           description |-> form.description,
                           adoptable |-> IsSome(form.adoptable)])
    IN  /\ req' = Request("POST /products/edit/{id}", s, [id |-> id, form |-> form])
        /\ IF ~user_state.is_authenticated
           THEN resp' = Redirect(LoginPath) /\ steps' = <<"gate">> /\ UNCHANGED products
           ELSE IF ~user_state.is_admin
           THEN resp' = Forbidden /\ steps' = <<"gate">> /\ UNCHANGED products
           ELSE IF ~IsSome(obj_id)
           THEN /\ resp' = Text(400, "Invalid product ID")
                /\ steps' = <<"gate", "parse_id">>
                /\ UNCHANGED products
           ELSE IF ~valid.ok
           THEN /\ resp' = show_edit_form_with_error(products, obj_id[1], user_state,
                                                     valid.err, read_ok)
                /\ steps' = <<"gate", "parse_id", "validate",
                              IF read_ok THEN "products.find_one"
                              ELSE Failed("products.find_one")>>
                /\ UNCHANGED products
           ELSE IF ~write_ok
           THEN /\ resp' = show_edit_form_with_error(products, obj_id[1], user_state,
                                                     DatabaseError("Database error"), read_ok)
                /\ steps' = <<"gate", "parse_id", "validate", Failed("products.update_one"),
                              IF read_ok THEN "products.find_one"
                              ELSE Failed("products.find_one")>>
                /\ UNCHANGED products
           ELSE /\ resp' = IF result.matched_count = 0
                           THEN Text(404, "Product not found")
                           ELSE Redirect(ProductsUpdatedPath)
                /\ steps' = <<"gate", "parse_id", "validate", "products.update_one">>
                /\ products' = result.coll
        /\ UNCHANGED <<session, orders, completed_orders, badge_quotes>>

\* the admin check of the JSON routes
api_denied_unless_authenticated(user_state) == ~user_state.is_authenticated

api_denied(user_state) == ~user_state.is_admin

\* DELETE /products/delete/{id}.  write_ok: the delete_one is applied.
delete_product(s, id, write_ok) ==
    LET user_state == extract_user_state(AuthUser(s))
        obj_id     == parse_str(id)
        result     == delete_one(products, obj_id[1])
    IN  /\ req' = Request("DELETE /products/delete/{id}", s, [id |-> id])
        /\ IF api_denied(user_state)
           THEN /\ resp' = Json(FALSE, "Access denied", <<>>)
                /\ steps' = <<"gate">>
                /\ UNCHANGED products
           ELSE IF ~IsSome(obj_id)
           THEN /\ resp' = Json(FALSE, "Invalid product ID", <<>>)
                /\ steps' = <<"gate", "parse_id">>
                /\ UNCHANGED products
           ELSE IF ~write_ok
           THEN /\ resp' = Json(FALSE, DatabaseError("Database error"), <<>>)
                /\ steps' = <<"gate", "parse_id", Failed("products.delete_one")>>
                /\ UNCHANGED products
           ELSE /\ resp' = IF result.deleted_count = 0
                           THEN Json(FALSE, "Product not found", <<>>)
                           ELSE Json(TRUE, "Product deleted successfully", Some(id))
                /\ steps' = <<"gate", "parse_id", "products.delete_one">>
                /\ products' = result.coll
        /\ UNCHANGED <<session, orders, completed_orders, badge_quotes>>

-----------------------------------------------------------------------------
(* Wide numbers.  A u32 or u64 of the program is the pair of its two 16-bit *)
(* halves, value hi * 2^16 + lo, so that the values around 2^32 are within  *)
(* the model's reach.  A page size is an ordinary number: it is at most     *)
(* MAX_PAGE_SIZE wherever the program multiplies by it.                     *)

Limb == 65536

Wide(hi, lo) == [hi |-> hi, lo |-> lo]

\* the wide form of an ordinary number
W(n) == Wide(n \div Limb, n % Limb)

WLess(a, b) == a.hi < b.hi \/ (a.hi = b.hi /\ a.lo < b.lo)

WMin(a, b) == IF WLess(b, a) THEN b ELSE a

WMax(a, b) == IF WLess(a, b) THEN b ELSE a

WAdd(a, b) == Wide(a.hi + b.hi + ((a.lo + b.lo) \div Limb), (a.lo + b.lo) % Limb)

\* a - b, for a >= b
WSub(a, b) ==
    IF a.lo >= b.lo THEN Wide(a.hi - b.hi, a.lo - b.lo)
    ELSE Wide(a.hi - b.hi - 1, a.lo + Limb - b.lo)

\* a * k, for a page size k
WMul(a, k) == Wide(a.hi * k + ((a.lo * k) \div Limb), (a.lo * k) % Limb)

\* the ceiling of a / k, for k > 0
WCeilDiv(a, k) ==
    LET n == WAdd(a, W(k - 1))
    IN  Wide(n.hi \div k, (((n.hi % k) * Limb) + n.lo) \div k)

U32Max == Wide(Limb - 1, Limb - 1)

\* the low 32 bits
AsU32(a) == Wide(a.hi % Limb, a.lo)

(* Unsigned 32-bit arithmetic.  An overflow panics in a build with overflow *)
(* checks and wraps in a build without them: val is the wrapped value, ovf  *)
(* tells that the operation overflowed.                                     *)

U32Add(a, b) == [val |-> AsU32(WAdd(a, b)), ovf |-> WAdd(a, b).hi >= Limb]

U32Sub(a, b) ==
    IF WLess(a, b)
    THEN [val |-> WSub(WAdd(a, Wide(Limb, 0)), b), ovf |-> TRUE]
    ELSE [val |-> WSub(a, b), ovf |-> FALSE]

U32Mul(a, k) == [val |-> AsU32(WMul(a, k)), ovf |-> WMul(a, k).hi >= Limb]

Min(a, b) == IF a <= b THEN a ELSE b

\* ((total_items as f64) / (page_size as f64)).ceil() as u32: the cast
\* saturates, and a division by zero gives infinity.  The quotient is exact
\* for the totals of this model, which stay far below 2^53.
CeilDivAsU32(total_items, page_size) ==
    IF page_size = 0 THEN U32Max
    ELSE WMin(WCeilDiv(total_items, page_size), U32Max)

-----------------------------------------------------------------------------
(* Pagination engine: the two copies of create_pagination_info *)

PaginationInfo(current_page, total_pages, start_item, end_item, total_items) ==
    [current_page |-> current_page, total_pages |-> total_pages,
     has_prev |-> WLess(W(1), current_page), has_next |-> WLess(current_page, total_pages),
     start_item |-> start_item, end_item |-> end_item, total_items |-> total_items]

\* handlers/order_processing.rs
create_pagination_info_orders(current_page, page_size, total_items) ==
    LET total_pages == IF total_items = W(0) THEN W(1)
                       ELSE CeilDivAsU32(total_items, page_size)
        prev   == U32Sub(current_page, W(1))
        offset == U32Mul(prev.val, page_size)
        start  == U32Add(offset.val, W(1))
        upper  == U32Add(start.val, W(page_size))
        last   == U32Sub(upper.val, W(1))
        end    == WMin(last.val, AsU32(total_items))
    IN  IF total_items = W(0)
        THEN [overflow |-> FALSE,
              info |-> PaginationInfo(current_page, total_pages, W(0), W(0), total_items)]
        ELSE [overflow |-> prev.ovf \/ offset.ovf \/ start.ovf \/ upper.ovf \/ last.ovf,
              info |-> PaginationInfo(current_page, total_pages, start.val, end, total_items)]

\* handlers/quote_processing.rs
create_pagination_info_quotes(current_page, page_size, total_items) ==
    LET total_pages == IF total_items = W(0) THEN W(1)
                       ELSE CeilDivAsU32(total_items, page_size)
        prev   == U32Sub(current_page, W(1))
        offset == U32Mul(prev.val, page_size)
        start  == U32Add(offset.val, W(1))
        upper  == U32Mul(current_page, page_size)
        end    == WMin(upper.val, AsU32(total_items))
    IN  IF total_items = W(0)
        THEN [overflow |-> FALSE,
              info |-> PaginationInfo(current_page, total_pages, W(0), W(0), total_items)]
        ELSE [overflow |-> prev.ovf \/ offset.ovf \/ start.ovf \/ upper.ovf,
              info |-> PaginationInfo(current_page, total_pages, start.val, end, total_items)]

DEFAULT_PAGE_SIZE == 10

MAX_PAGE_SIZE == 100

\* params.page.unwrap_or(1).max(1)
EffectivePage(page) == WMax(IF IsSome(page) THEN page[1] ELSE W(1), W(1))

\* params.page_size.unwrap_or(DEFAULT_PAGE_SIZE).min(MAX_PAGE_SIZE), which is
\* small enough to be an ordinary number
EffectivePageSize(page_size) ==
    WMin(IF IsSome(page_size) THEN page_size[1] ELSE W(DEFAULT_PAGE_SIZE),
         W(MAX_PAGE_SIZE)).lo

\* let skip = (page - 1) * page_size
Skip(page, page_size) == U32Mul(WSub(page, W(1)), page_size)

-----------------------------------------------------------------------------
(* Record projection: dates, currency, status classes *)

\* the characters of the model's timestamps, in ASCII order
Ascii == <<" ", "-", ".", "0", "1", "2", "3", "4", "5", "6", "7", "8", "9", ":",
           "T", "Z", "a", "d", "e", "i", "l", "n", "t", "v">>

Code(c) == CHOOSE i \in DOMAIN Ascii : Ascii[i] = c

\* str::cmp: -1, 0 or 1
RECURSIVE StrCmp(_, _)
StrCmp(a, b) ==
    IF a = <<>> /\ b = <<>> THEN 0
    ELSE IF a = <<>> THEN 0 - 1
    ELSE IF b = <<>> THEN 1
    ELSE IF Code(a[1]) < Code(b[1]) THEN 0 - 1
    ELSE IF Code(a[1]) > Code(b[1]) THEN 1
    ELSE StrCmp(Tail(a), Tail(b))

Num2(s, i) == 10 * DigitVal(s[i]) + DigitVal(s[i + 1])

\* DateTime::parse_from_rfc3339 accepts s, for the shapes of the model's
\* timestamps: YYYY-MM-DDTHH:MM:SSZ with fields in range, or something that
\* is no timestamp at all
IsRfc3339(s) ==
    /\ Len(s) = 20
    /\ \A i \in {1, 2, 3, 4, 6, 7, 9, 10, 12, 13, 15, 16, 18, 19} : IsDigit(s[i])
    /\ s[5] = "-" /\ s[8] = "-" /\ s[11] = "T" /\ s[14] = ":" /\ s[17] = ":" /\ s[20] = "Z"
    /\ Num2(s, 6) \in 1..12 /\ Num2(s, 9) \in 1..31
    /\ Num2(s, 12) \in 0..23 /\ Num2(s, 15) \in 0..59 /\ Num2(s, 18) \in 0..59

\* dt.format("%Y-%m-%d %H:%M"), or the raw string when it does not parse
format_created_at(s) ==
    IF IsRfc3339(s) THEN SubSeq(s, 1, 10) \o <<" ">> \o SubSeq(s, 12, 16) ELSE s

RECURSIVE NatStr(_)
NatStr(n) == IF n < 10 THEN <<Digits[n + 1]>> ELSE NatStr(n \div 10) \o <<Digits[(n % 10) + 1]>>

\* format!("{:.2}", amount) with the currency symbol in front; an amount is
\* kept in pence
format_currency(pence) ==
    <<"GBP">> \o NatStr(pence \div 100) \o <<".">>
        \o <<Digits[((pence % 100) \div 10) + 1], Digits[(pence % 10) + 1]>>

order_status_class(status) ==
    CASE status = "paid" -> "status-paid"
      [] status = "processing" -> "status-processing"
      [] status = "shipped" -> "status-shipped"
      [] status = "completed" -> "status-completed"
      [] status = "cancelled" -> "status-cancelled"
      [] OTHER -> "status-unknown"

quote_status_class(status) ==
    CASE status = "pending" -> "status-pending"
      [] status = "quoted" -> "status-quoted"
      [] status = "accepted" -> "status-accepted"
      [] status = "completed" -> "status-completed"
      [] status = "cancelled" -> "status-cancelled"
      [] OTHER -> "status-unknown"

\* order_processing::convert_to_display
order_to_display(order) ==
    [id |-> to_hex(order.id), order_reference |-> order.order_reference,
     line2 |-> IF IsSome(order.line2) THEN order.line2[1] ELSE "",
     total |-> order.total, status |-> order.status,
     created_at |-> order.created_at, updated_at |-> order.updated_at,
     formatted_total |-> format_currency(order.total),
     formatted_created_at |-> format_created_at(order.created_at),
     status_class |-> order_status_class(order.status)]

\* quote_processing::convert_to_display
quote_to_display(quote) ==
    [id |-> to_hex(quote.id), email |-> quote.email,
     double_sided |-> IF quote.double_sided THEN "yes" ELSE "no",
     estimated_price |-> quote.estimated_price, status |-> quote.status,
     created_at |-> quote.created_at,
     formatted_price |-> format_currency(quote.estimated_price),
     formatted_created_at |-> format_created_at(quote.created_at),
     status_class |-> quote_status_class(quote.status),
     sided_text |-> IF quote.double_sided THEN "Double-sided" ELSE "Single-sided"]

-----------------------------------------------------------------------------
(* Sequences of documents *)

\* d inserted into a sequence sorted by created_at descending, after every
\* document that does not sort after it
RECURSIVE InsertNewestFirst(_, _)
InsertNewestFirst(sorted, d) ==
    IF sorted = <<>> THEN <<d>>
    ELSE IF StrCmp(d.created_at, sorted[1].created_at) = 1
    THEN <<d>> \o sorted
    ELSE <<sorted[1]>> \o InsertNewestFirst(Tail(sorted), d)

KeepOrder(docs) == docs

\* sort_by(|a, b| b.created_at.cmp(&a.created_at)): a stable sort
RECURSIVE SortNewestFirst(_)
SortNewestFirst(docs) ==
    IF docs = <<>> THEN <<>>
    ELSE InsertNewestFirst(SortNewestFirst(SubSeq(docs, 1, Len(docs) - 1)), docs[Len(docs)])

\* iter().skip(n).take(k)
SkipTake(docs, n, k) ==
    IF n.hi > 0 \/ n.lo >= Len(docs) THEN <<>>
    ELSE SubSeq(docs, n.lo + 1, Min(n.lo + k, Len(docs)))

\* the handler panicked: the connection ends without a response
Panicked ==
    [kind |-> "panic", status |-> 0, location |-> <<>>, text |-> "",
     page |-> NoPage, json |-> NoJson]

-----------------------------------------------------------------------------
(* Orders (handlers/order_processing.rs) *)

ActiveDefaultStatuses == {"pending", "failed", "cancelled"}

CompletedDefaultStatuses_with_completed == {"paid", "processing", "shipped", "completed"}

CompletedDefaultStatuses == {"paid", "processing", "shipped"}

OrderPage(order_displays, pagination, show_completed, error_message, user_state) ==
    [template |-> "order_processing", orders |-> order_displays,
     pagination |-> pagination, show_completed |-> show_completed,
     success_message |-> "", error_message |-> error_message,
     user_state |-> user_state]

\* the response of list_orders and the steps it executed.  faults: the store
\* reads that fail; overflow_checks: the build panics on integer overflow.
list_orders_result(user_state, params, faults, overflow_checks) ==
    LET show_completed ==
            (IF IsSome(params.show_completed) THEN params.show_completed[1] ELSE "false") = "true"
        page       == EffectivePage(params.page)
        page_size  == EffectivePageSize(params.page_size)
        skip       == Skip(page, page_size)
        MainKeep(o) == show_completed \/ o.status \in ActiveDefaultStatuses
        CompKeep(o) == show_completed \/ o.status \in CompletedDefaultStatuses
        main_docs  == IF "orders.collect" \in faults THEN <<>> ELSE SelectSeq(orders, MainKeep)
        comp_found == "completed.find" \notin faults
        comp_docs  == IF ~comp_found \/ "completed.collect" \in faults THEN <<>>
                      ELSE SelectSeq(completed_orders, CompKeep)
        all_orders == SortNewestFirst(main_docs \o comp_docs)
        total_count == W(Len(all_orders))
        paginated  == SkipTake(all_orders, skip.val, page_size)
        pagination == create_pagination_info_orders(page, page_size, total_count)
        main_steps == <<"orders.find", "orders.raw_find",
                        Ran("orders.raw_collect", faults), Ran("orders.collect", faults)>>
        comp_steps == IF comp_found
                      THEN <<"completed.find", "completed.raw_find",
                             Ran("completed.raw_collect", faults),
                             Ran("completed.collect", faults)>>
                      ELSE <<Failed("completed.find")>>
    IN  IF ~user_state.is_authenticated
        THEN [resp |-> Redirect(LoginPath), steps |-> <<"gate">>]
        ELSE IF ~user_state.is_admin
        THEN [resp |-> Forbidden, steps |-> <<"gate">>]
        ELSE IF skip.ovf /\ overflow_checks
        THEN [resp |-> Panicked, steps |-> <<"gate", "skip">>]
        ELSE IF "orders.find" \in faults
        THEN [resp |-> Html(OrderPage(<<>>, create_pagination_info_orders(W(1), page_size, W(0)).info,
                                      show_completed, DatabaseError("Database error fetching orders"),
                                      user_state)),
              steps |-> <<"gate", "skip", Failed("orders.find")>>]
        ELSE IF "orders.raw_find" \in faults
        THEN [resp |-> Panicked,
              steps |-> <<"gate", "skip", "orders.find", Failed("orders.raw_find")>>]
        ELSE IF comp_found /\ "completed.raw_find" \in faults
        THEN [resp |-> Panicked,
              steps |-> <<"gate", "skip">> \o main_steps
                            \o <<"completed.find", Failed("completed.raw_find")>>]
        ELSE IF pagination.overflow /\ overflow_checks
        THEN [resp |-> Panicked,
              steps |-> <<"gate", "skip">> \o main_steps \o comp_steps \o <<"paginate">>]
        ELSE [resp |-> Html(OrderPage([i \in DOMAIN paginated |-> order_to_display(paginated[i])],
                                      pagination.info, show_completed, "", user_state)),
              steps |-> <<"gate", "skip">> \o main_steps \o comp_steps \o <<"paginate">>]

\* GET /orders
list_orders(s, params, faults, overflow_checks) ==
    LET result == list_orders_result(extract_user_state(AuthUser(s)), params, faults,
                                     overflow_checks)
    IN  /\ req' = Request("GET /orders", s, params)
        /\ resp' = result.resp
        /\ steps' = result.steps
        /\ UNCHANGED <<session, stores>>

OrderTargetStatuses_with_refunded ==
    {"paid", "processing", "shipped", "completed", "cancelled", "refunded"}

OrderTargetStatuses == {"paid", "processing", "shipped", "completed", "cancelled"}

Matched_never(result) == FALSE

\* if result.matched_count > 0
Matched(result) == result.matched_count > 0

\* POST /orders/update-status.  now: Utc::now().to_rfc3339(); faults: the
\* store writes that fail.
update_order_status(s, form, now, faults) ==
    LET user_state == extract_user_state(AuthUser(s))
        obj_id     == parse_str(form.order_id)
        fields     == [status |-> form.status, updated_at |-> now]
        first      == update_one(orders, obj_id[1], fields)
        second     == update_one(completed_orders, obj_id[1], fields)
        updated    == Json(TRUE, "Order status updated to " \o form.status, Some(form.order_id))
    IN  /\ req' = Request("POST /orders/update-status", s, form)
        /\ IF api_denied(user_state)
           THEN /\ resp' = Json(FALSE, "Access denied", <<>>)
                /\ steps' = <<"gate">>
                /\ UNCHANGED <<orders, completed_orders>>
           ELSE IF form.status \notin OrderTargetStatuses
           THEN /\ resp' = Json(FALSE, "Invalid status", <<>>)
                /\ steps' = <<"gate", "validate">>
                /\ UNCHANGED <<orders, completed_orders>>
           ELSE IF ~IsSome(obj_id)
           THEN /\ resp' = Json(FALSE, "Invalid order ID", <<>>)
                /\ steps' = <<"gate", "validate", "parse_id">>
                /\ UNCHANGED <<orders, completed_orders>>
           ELSE IF "orders.update_one" \in faults
           THEN /\ resp' = Json(FALSE, DatabaseError("Database error"), <<>>)
                /\ steps' = <<"gate", "validate", "parse_id", Failed("orders.update_one")>>
                /\ UNCHANGED <<orders, completed_orders>>
           ELSE IF Matched(first)
           THEN /\ resp' = updated
                /\ steps' = <<"gate", "validate", "parse_id", "orders.update_one">>
                /\ orders' = first.coll
                /\ UNCHANGED completed_orders
           ELSE IF "completed.update_one" \in faults
           THEN /\ resp' = Json(FALSE, DatabaseError("Database error updating completed order"), <<>>)
                /\ steps' = <<"gate", "validate", "parse_id", "orders.update_one",
                              Failed("completed.update_one")>>
                /\ orders' = first.coll
                /\ UNCHANGED completed_orders
           ELSE /\ resp' = IF Matched(second) THEN updated
                           ELSE Json(FALSE, "Order not found in either collection", <<>>)
                /\ steps' = <<"gate", "validate", "parse_id", "orders.update_one",
                              "completed.update_one">>
                /\ orders' = first.coll
                /\ completed_orders' = second.coll
        /\ UNCHANGED <<session, products, badge_quotes>>

-----------------------------------------------------------------------------
(* Quotes (handlers/quote_processing.rs) *)

QuotePage(quote_displays, pagination, status_filter, error_message, user_state) ==
    [template |-> "quote_processing", quotes |-> quote_displays,
     pagination |-> pagination, status_filter |-> status_filter,
     success_message |-> "", error_message |-> error_message,
     user_state |-> user_state]

\* find(filter).skip(n).limit(k).sort(created_at: -1): the store sorts, then
\* skips, then limits; a limit of 0 is no limit
FindSortedWindow(docs, n, k) ==
    LET sorted == SortNewestFirst(docs)
    IN  SkipTake(sorted, n, IF k = 0 THEN Len(sorted) ELSE k)

list_quotes_result(user_state, params, faults, overflow_checks) ==
    LET status_filter == IF IsSome(params.status_filter) THEN params.status_filter[1] ELSE "all"
        page       == EffectivePage(params.page)
        page_size  == EffectivePageSize(params.page_size)
        skip       == Skip(page, page_size)
        Keep(q)    == status_filter = "all" \/ q.status = status_filter
        matching   == SelectSeq(badge_quotes, Keep)
        total_count == W(Len(matching))
        quotes     == IF "quotes.collect" \in faults THEN <<>>
                      ELSE FindSortedWindow(matching, skip.val, page_size)
        pagination == create_pagination_info_quotes(page, page_size, total_count)
        ErrorPage(msg) ==
            Html(QuotePage(<<>>, create_pagination_info_quotes(W(1), page_size, W(0)).info,
                           status_filter, msg, user_state))
    IN  IF ~user_state.is_authenticated
        THEN [resp |-> Redirect(LoginPath), steps |-> <<"gate">>]
        ELSE IF ~user_state.is_admin
        THEN [resp |-> Forbidden, steps |-> <<"gate">>]
        ELSE IF skip.ovf /\ overflow_checks
        THEN [resp |-> Panicked, steps |-> <<"gate", "skip">>]
        ELSE IF "quotes.count" \in faults
        THEN [resp |-> ErrorPage(DatabaseError("Database error counting quotes")),
              steps |-> <<"gate", "skip", Failed("quotes.count")>>]
        ELSE IF "quotes.find" \in faults
        THEN [resp |-> ErrorPage(DatabaseError("Database error fetching quotes")),
              steps |-> <<"gate", "skip", "quotes.count", Failed("quotes.find")>>]
        ELSE IF pagination.overflow /\ overflow_checks
        THEN [resp |-> Panicked,
              steps |-> <<"gate", "skip", "quotes.count", "quotes.find",
                          Ran("quotes.collect", faults), "paginate">>]
        ELSE [resp |-> Html(QuotePage([i \in DOMAIN quotes |-> quote_to_display(quotes[i])],
                                      pagination.info, status_filter, "", user_state)),
              steps |-> <<"gate", "skip", "quotes.count", "quotes.find",
                          Ran("quotes.collect", faults), "paginate">>]

\* GET /quotes
list_quotes(s, params, faults, overflow_checks) ==
    LET result == list_quotes_result(extract_user_state(AuthUser(s)), params, faults,
                                     overflow_checks)
    IN  /\ req' = Request("GET /quotes", s, params)
        /\ resp' = result.resp
        /\ steps' = result.steps
        /\ UNCHANGED <<session, stores>>

QuoteTargetStatuses == {"pending", "quoted", "accepted", "completed", "cancelled"}

\* POST /quotes/update-status.  write_ok: the update_one is applied.
update_quote_status(s, form, now, write_ok) ==
    LET user_state == extract_user_state(AuthUser(s))
        obj_id     == parse_str(form.quote_id)
        result     == update_one(badge_quotes, obj_id[1],
                                 [status |-> form.status, updated_at |-> now])
    IN  /\ req' = Request("POST /quotes/update-status", s, form)
        /\ IF api_denied(user_state)
           THEN /\ resp' = Json(FALSE, "Access denied", <<>>)
                /\ steps' = <<"gate">>
                /\ UNCHANGED badge_quotes
           ELSE IF form.status \notin QuoteTargetStatuses
           THEN /\ resp' = Json(FALSE, "Invalid status", <<>>)
                /\ steps' = <<"gate", "validate">>
                /\ UNCHANGED badge_quotes
           ELSE IF ~IsSome(obj_id)
           THEN /\ resp' = Json(FALSE, "Invalid quote ID", <<>>)
                /\ steps' = <<"gate", "validate", "parse_id">>
                /\ UNCHANGED badge_quotes
           ELSE IF ~write_ok
           THEN /\ resp' = Json(FALSE, DatabaseError("Database error"), <<>>)
                /\ steps' = <<"gate", "validate", "parse_id", Failed("quotes.update_one")>>
                /\ UNCHANGED badge_quotes
           ELSE /\ resp' = IF Matched(result)
                           THEN Json(TRUE, "Quote status updated to " \o form.status, Some(form.quote_id))
                           ELSE Json(FALSE, "Quote not found", <<>>)
                /\ steps' = <<"gate", "validate", "parse_id", "quotes.update_one">>
                /\ badge_quotes' = result.coll
        /\ UNCHANGED <<session, products, orders, completed_orders>>

Contains_never(s, sub) == FALSE

\* str::contains
Contains(s, sub) ==
    \E i \in 1..(Len(s) - Len(sub) + 1) : SubSeq(s, i, i + Len(sub) - 1) = sub

\* filepath.rsplit('.').next(): what follows the last dot
AfterLastDot(s) ==
    IF \E i \in DOMAIN s : s[i] = "."
    THEN LET last == CHOOSE i \in DOMAIN s : s[i] = "." /\ \A j \in (i + 1)..Len(s) : s[j] # "."
         IN  SubSeq(s, last + 1, Len(s))
    ELSE s

BadgePrefix == <<"b", "a", "d", "g", "e", "_">>

UploadsDir == <<".", "/", "p", "r", "i", "v", "a", "t", "e", "_",
                "u", "p", "l", "o", "a", "d", "s", "/">>

content_type(filepath) ==
    LET ext == LowerStr(AfterLastDot(filepath))
    IN  IF ext \in {<<"j", "p", "g">>, <<"j", "p", "e", "g">>} THEN "image/jpeg"
        ELSE IF ext = <<"p", "n", "g">> THEN "image/png"
        ELSE IF ext = <<"g", "i", "f">> THEN "image/gif"
        ELSE "application/octet-stream"

\* the files of ./private_uploads, written by another program
UploadedFiles == {BadgePrefix \o <<"1", ".", "P", "N", "G">>}

\* GET /quotes/image/{filename}
serve_badge_image(s, filename) ==
    LET user_state == extract_user_state(AuthUser(s))
        filepath   == UploadsDir \o filename
    IN  /\ req' = Request("GET /quotes/image/{filename}", s, [filename |-> filename])
        /\ IF ~user_state.is_admin
           THEN resp' = Text(403, "") /\ steps' = <<"gate">>
           ELSE IF \/ ~StartsWith(filename, BadgePrefix)
                   \/ Contains(filename, <<".", ".">>)
                   \/ Contains(filename, <<"/">>)
           THEN resp' = Text(400, "") /\ steps' = <<"gate", "check_name">>
           ELSE IF filename \notin UploadedFiles
           THEN resp' = Text(404, "") /\ steps' = <<"gate", "check_name", Failed("fs.read")>>
           ELSE /\ resp' = [kind |-> "bytes", status |-> 200, location |-> <<>>,
                            text |-> content_type(filepath), page |-> NoPage, json |-> NoJson]
                /\ steps' = <<"gate", "check_name", "fs.read">>
        /\ UNCHANGED <<session, stores>>

-----------------------------------------------------------------------------
(* The store as seeded, and the inputs of the requests *)

\* the timestamp YYYY-01-0dT12:00:00Z of day d of January 2025
Stamp(d) == <<"2", "0", "2", "5", "-", "0", "1", "-", "0", d,
              "T", "1", "2", ":", "0", "0", ":", "0", "0", "Z">>

SeedProducts == <<
    [id |-> OidStr("1"), name |-> <<"F", "o", "x">>,
     image_url |-> <<"f", ".", "p", "n", "g">>, price |-> <<"9", ".", "5">>,
     quantity |-> 3, description |-> <<"t", "a", "i", "l">>, adoptable |-> FALSE],
    [id |-> OidStr("5"), name |-> <<"O", "w", "l">>,
     image_url |-> <<"/", "o", ".", "p", "n", "g">>, price |-> <<"1", "2">>,
     quantity |-> 1, description |-> <<>>, adoptable |-> TRUE] >>

SeedOrders == <<
    [id |-> OidStr("2"), order_reference |-> "ORD-2", line2 |-> <<>>, total |-> 4498,
     status |-> "pending", created_at |-> Stamp("1"),
     updated_at |-> "2025-01-01T12:00:00Z"] >>

SeedCompletedOrders == <<
    [id |-> OidStr("3"), order_reference |-> "ORD-3", line2 |-> Some("Apt 4B"), total |-> 1000,
     status |-> "paid", created_at |-> Stamp("2"),
     updated_at |-> "2025-01-02T12:00:00Z"] >>

SeedQuotes == <<
    [id |-> OidStr("4"), email |-> "fan@example.com", double_sided |-> TRUE,
     estimated_price |-> 1250, status |-> "pending", created_at |-> Stamp("3"),
     updated_at |-> "2025-01-03T12:00:00Z"] >>

Init ==
    /\ session = [s \in Sessions |-> <<>>]
    /\ products = SeedProducts
    /\ orders = SeedOrders
    /\ completed_orders = SeedCompletedOrders
    /\ badge_quotes = SeedQuotes
    /\ req = Request("none", 1, <<>>)
    /\ resp = Text(0, "")
    /\ steps = <<>>

\* Utc::now().to_rfc3339()
Now == {"2025-02-01T00:00:00+00:00"}

MalformedId == <<"n", "o", "t", "-", "h", "e", "x">>

\* 23 hex digits
ShortId == [i \in 1..(OidLen - 1) |-> "0"]

ProductIdInputs == {OidStr("1"), OidStr("9"), MalformedId, ShortId}

OrderIdInputs == {OidStr("2"), OidStr("3"), MalformedId, ShortId}

QuoteIdInputs == {OidStr("4"), MalformedId, ShortId}

GoodForm ==
    [name |-> <<"C", "a", "t">>, price |-> <<"1", "9", ".", "9", "9">>,
     quantity |-> <<"1", "0">>, description |-> <<>>, adoptable |-> Some("on")]

BlankNameForm == [GoodForm EXCEPT !.name = <<" ">>]

NegativePriceForm == [GoodForm EXCEPT !.price = <<"-", "1">>]

BadQuantityForm == [GoodForm EXCEPT !.quantity = <<"1", ".", "5">>]

EditForms == {GoodForm, BlankNameForm, NegativePriceForm, BadQuantityForm}

AbsentParams == [page |-> <<>>, page_size |-> <<>>]

\* the requests of the whole-program specification: each a tuple of the
\* handler's inputs and of what the environment lets succeed

Logins ==
    {[username |-> "admin", password |-> "pw-admin", next |-> <<>>],
     [username |-> "staff", password |-> "pw-staff", next |-> <<>>],
     [username |-> "admin", password |-> "pw-staff", next |-> <<>>],
     [username |-> "ghost", password |-> "pw-admin", next |-> <<>>]}

LoginRequests ==
    {<<creds, TRUE, TRUE>> : creds \in Logins}
        \cup {<<[username |-> "admin", password |-> "pw-admin", next |-> <<>>], ok[1], ok[2]>> :
                 ok \in {<<FALSE, TRUE>>, <<TRUE, FALSE>>}}

ListProductsRequests == {<<TRUE, TRUE>>, <<FALSE, TRUE>>, <<TRUE, FALSE>>}

EditFormRequests ==
    {<<id, TRUE>> : id \in ProductIdInputs} \cup {<<OidStr("1"), FALSE>>}

UpdateProductRequests ==
    {<<id, GoodForm, TRUE, TRUE>> : id \in ProductIdInputs}
        \cup {<<id, form, TRUE, TRUE>> : id \in {OidStr("1"), OidStr("9")},
                                          form \in EditForms \ {GoodForm, BadQuantityForm}}
        \cup {<<OidStr("1"), BadQuantityForm, TRUE, TRUE>>}
        \cup {<<OidStr("1"), GoodForm, FALSE, TRUE>>, <<OidStr("1"), BlankNameForm, TRUE, FALSE>>}

DeleteProductRequests ==
    {<<id, TRUE>> : id \in ProductIdInputs} \cup {<<OidStr("1"), FALSE>>}

ListOrdersRequests ==
    {<<AbsentParams @@ [show_completed |-> <<>>], {}, TRUE>>,
     <<[page |-> Some(W(2)), page_size |-> Some(W(1)), show_completed |-> Some("true")],
       {}, FALSE>>,
     <<AbsentParams @@ [show_completed |-> <<>>], {"orders.find"}, TRUE>>}

UpdateOrderRequests ==
    {<<[order_id |-> id, status |-> status], {}>> :
         id \in OrderIdInputs, status \in {"shipped", "refunded"}}
        \cup {<<[order_id |-> OidStr("2"), status |-> "shipped"], {"orders.update_one"}>>,
              <<[order_id |-> OidStr("3"), status |-> "shipped"], {"completed.update_one"}>>}

ListQuotesRequests ==
    {<<AbsentParams @@ [status_filter |-> <<>>], {}, TRUE>>,
     <<[page |-> Some(W(2)), page_size |-> Some(W(1)), status_filter |-> Some("pending")],
       {}, FALSE>>,
     <<AbsentParams @@ [status_filter |-> <<>>], {"quotes.count"}, TRUE>>,
     <<AbsentParams @@ [status_filter |-> <<>>], {"quotes.find"}, TRUE>>,
     <<AbsentParams @@ [status_filter |-> <<>>], {"quotes.collect"}, TRUE>>}

UpdateQuoteRequests ==
    {<<[quote_id |-> id, status |-> status], TRUE>> :
         id \in QuoteIdInputs, status \in {"quoted", "refunded"}}
        \cup {<<[quote_id |-> OidStr("4"), status |-> "quoted"], FALSE>>}

Filenames ==
    UploadedFiles \cup {<<"x">>, BadgePrefix \o <<".", ".">>, BadgePrefix \o <<"2">>,
                        BadgePrefix \o <<"/", "x">>}

\* the requests that bind and clear a session's identity
SessionNext(login_requests, next_values) ==
    \/ \E s \in Sessions, next \in next_values : show_login_form(s, next)
    \/ \E s \in Sessions, r \in login_requests : handle_login(s, r[1], r[2], r[3])
    \/ \E s \in Sessions, session_ok \in BOOLEAN : handle_logout(s, session_ok)

ProductNext ==
    \/ \E s \in Sessions, r \in ListProductsRequests : list_products(s, r[1], r[2])
    \/ \E s \in Sessions, r \in EditFormRequests : show_edit_form(s, r[1], r[2])
    \/ \E s \in Sessions, r \in UpdateProductRequests :
           update_product(s, r[1], r[2], r[3], r[4])
    \/ \E s \in Sessions, r \in DeleteProductRequests : delete_product(s, r[1], r[2])

OrderNext ==
    \/ \E s \in Sessions, r \in ListOrdersRequests : list_orders(s, r[1], r[2], r[3])
    \/ \E s \in Sessions, r \in UpdateOrderRequests, now \in Now :
           update_order_status(s, r[1], now, r[2])

QuoteNext ==
    \/ \E s \in Sessions, r \in ListQuotesRequests : list_quotes(s, r[1], r[2], r[3])
    \/ \E s \in Sessions, r \in UpdateQuoteRequests, now \in Now :
           update_quote_status(s, r[1], now, r[2])
    \/ \E s \in Sessions, filename \in Filenames : serve_badge_image(s, filename)

Next ==
    \/ \E s \in Sessions : dashboard(s)
    \/ \E s \in Sessions : show_calculator(s)
    \/ SessionNext(LoginRequests, {<<>>})
    \/ ProductNext
    \/ OrderNext
    \/ QuoteNext

Spec == Init /\ [][Next]_vars

-----------------------------------------------------------------------------
(* Login in detail: every username and password, every `next` value *)

LoginFormRequests ==
    {<<[username |-> "admin", password |-> "pw-admin", next |-> next], TRUE, TRUE>> :
         next \in NextValues}
        \cup {<<[username |-> u, password |-> pw, next |-> next], ok[1], ok[2]>> :
                 u \in Usernames, pw \in Passwords,
                 next \in {<<>>, Some(<<"/", "h">>)},
                 ok \in {<<TRUE, TRUE>>, <<FALSE, TRUE>>, <<TRUE, FALSE>>}}

NextLogin ==
    \/ \E s \in Sessions : dashboard(s)
    \/ SessionNext(LoginFormRequests, NextValues)

SpecLogin == Init /\ [][NextLogin]_vars

-----------------------------------------------------------------------------
(* The pagination engine on its own: both copies applied to one input *)

\* pages 1..MaxPage and totals 0..MaxTotalItems, besides the large pages
MaxPage == 4

MaxTotalItems == 12

\* 2^32 - 1, (2^32 - 1) / 85 and 2^32 / 100 rounded up
LargePages == {U32Max, Wide(771, 771), Wide(655, 23593)}

PageInputs == {W(n) : n \in 1..MaxPage} \cup LargePages

PageSizeInputs == {1, 2, 3, DEFAULT_PAGE_SIZE, 85, MAX_PAGE_SIZE}

TotalInputs == {W(n) : n \in 0..MaxTotalItems}

\* what a call gives in one build: the value, or a panic on overflow
Outcome(result, overflow_checks) ==
    IF result.overflow /\ overflow_checks
    THEN [panic |-> TRUE, info |-> PaginationInfo(W(0), W(0), W(0), W(0), W(0))]
    ELSE [panic |-> FALSE, info |-> result.info]

InitPage ==
    /\ session = [s \in Sessions |-> <<>>]
    /\ products = SeedProducts
    /\ orders = SeedOrders
    /\ completed_orders = SeedCompletedOrders
    /\ badge_quotes = SeedQuotes
    /\ req \in {Request("create_pagination_info", 1,
                        [current_page |-> p, page_size |-> k, total_items |-> n]) :
                    p \in PageInputs, k \in PageSizeInputs, n \in TotalInputs}
    /\ resp = Text(0, "")
    /\ steps = <<>>

paginate(overflow_checks) ==
    /\ steps = <<>>
    /\ steps' = <<"paginate">>
    /\ resp' = [kind |-> "pagination", status |-> 0,
                orders |-> Outcome(create_pagination_info_orders(
                               req.arg.current_page, req.arg.page_size, req.arg.total_items),
                               overflow_checks),
                quotes |-> Outcome(create_pagination_info_quotes(
                               req.arg.current_page, req.arg.page_size, req.arg.total_items),
                               overflow_checks)]
    /\ UNCHANGED <<session, stores, req>>

NextPage == \E overflow_checks \in BOOLEAN : paginate(overflow_checks)

SpecPage == InitPage /\ [][NextPage]_vars

-----------------------------------------------------------------------------
(* The page window of the two listings: from the query values to the page, *)
(* the page size, the skip and the pagination of the engine                 *)

\* Option<u32> of the query: absent, 0..MaxPage, or a large page
PageParamInputs ==
    {<<>>} \cup {Some(W(n)) : n \in 0..MaxPage} \cup {Some(p) : p \in LargePages}

PageSizeParamInputs ==
    {<<>>} \cup {Some(W(n)) : n \in {0, 1, 2, DEFAULT_PAGE_SIZE, 85, MAX_PAGE_SIZE,
                                      MAX_PAGE_SIZE + 1}}
           \cup {Some(U32Max)}

WindowTotals == {W(0), W(1), W(MaxTotalItems)}

InitWindow ==
    /\ session = [s \in Sessions |-> <<>>]
    /\ products = SeedProducts
    /\ orders = SeedOrders
    /\ completed_orders = SeedCompletedOrders
    /\ badge_quotes = SeedQuotes
    /\ req \in {Request("page window", 1,
                        [page |-> p, page_size |-> k, total_items |-> n]) :
                    p \in PageParamInputs, k \in PageSizeParamInputs, n \in WindowTotals}
    /\ resp = Text(0, "")
    /\ steps = <<>>

\* list_orders and list_quotes, lines 50-55 of each, and the engine they call
page_window(overflow_checks) ==
    LET page      == EffectivePage(req.arg.page)
        page_size == EffectivePageSize(req.arg.page_size)
        skip      == Skip(page, page_size)
        panicked  == skip.ovf /\ overflow_checks
        \* a handler that panicked at the skip never calls the engine
        Engine(result) ==
            Outcome([overflow |-> result.overflow \/ panicked, info |-> result.info],
                    overflow_checks)
    IN  /\ steps = <<>>
        /\ steps' = IF panicked THEN <<"skip">> ELSE <<"skip", "paginate">>
        /\ resp' = [kind |-> "window", status |-> 0,
                    page |-> page, page_size |-> page_size,
                    skip |-> [panic |-> panicked, val |-> skip.val],
                    orders |-> Engine(create_pagination_info_orders(
                                   page, page_size, req.arg.total_items)),
                    quotes |-> Engine(create_pagination_info_quotes(
                                   page, page_size, req.arg.total_items))]
        /\ UNCHANGED <<session, stores, req>>

NextWindow == \E overflow_checks \in BOOLEAN : page_window(overflow_checks)

SpecWindow == InitWindow /\ [][NextWindow]_vars

-----------------------------------------------------------------------------
(* The order manager in detail: several stores, every read fault, pages of *)
(* two orders                                                               *)

\* an Order document
OrderDoc(c, status, day) ==
    [id |-> OidStr(c), order_reference |-> "ORD-" \o c, line2 |-> <<>>, total |-> 1000,
     status |-> status, created_at |-> Stamp(day),
     updated_at |-> "2025-01-01T12:00:00Z"]

\* the contents of the two order collections: the seeded pair; three active
\* and three completed orders, two of them created at the same time; and an
\* order whose id is in both collections
OrderStores ==
    {<<SeedOrders, SeedCompletedOrders>>,
     <<<<OrderDoc("2", "pending", "1"), OrderDoc("5", "failed", "3"),
         OrderDoc("6", "paid", "5")>>,
       <<OrderDoc("3", "paid", "2"), OrderDoc("7", "completed", "3"),
         OrderDoc("8", "shipped", "4")>>>>,
     <<<<OrderDoc("2", "pending", "1")>>,
       <<OrderDoc("2", "paid", "1"), OrderDoc("3", "paid", "2")>>>>}

InitOrders ==
    /\ session = [s \in Sessions |-> <<>>]
    /\ products = SeedProducts
    /\ badge_quotes = SeedQuotes
    /\ \E store \in OrderStores : orders = store[1] /\ completed_orders = store[2]
    /\ req = Request("none", 1, <<>>)
    /\ resp = Text(0, "")
    /\ steps = <<>>

\* the store reads of list_orders that can fail
OrderReadFaults ==
    {"orders.find", "orders.raw_find", "orders.raw_collect", "orders.collect",
     "completed.find", "completed.raw_find", "completed.raw_collect", "completed.collect"}

OrderPageParams ==
    {[page |-> p, page_size |-> k, show_completed |-> c] :
        p \in {<<>>} \cup {Some(W(n)) : n \in 1..MaxPage},
        k \in {<<>>, Some(W(0)), Some(W(2))},
        c \in {<<>>, Some("true")}}

OrderListRequests ==
    {<<params, {}>> : params \in OrderPageParams}
        \cup {<<[page |-> <<>>, page_size |-> k, show_completed |-> <<>>], {f}>> :
                 k \in {<<>>, Some(W(2))}, f \in OrderReadFaults}

OrderUpdateRequests ==
    {<<[order_id |-> id, status |-> status], {}>> :
         id \in {OidStr("2"), OidStr("3"), OidStr("9"), MalformedId},
         status \in {"shipped", "completed", "refunded"}}
        \cup {<<[order_id |-> OidStr(c), status |-> "shipped"], {f}>> :
                 c \in {"2", "3"}, f \in {"orders.update_one", "completed.update_one"}}

\* the session the order requests are made on
OrderSessions == {1}

NextOrders ==
    \/ \E s \in OrderSessions, r \in {<<c, TRUE, TRUE>> : c \in Logins} :
           handle_login(s, r[1], r[2], r[3])
    \/ \E s \in OrderSessions, r \in OrderListRequests : list_orders(s, r[1], r[2], TRUE)
    \/ \E s \in OrderSessions, r \in OrderUpdateRequests, now \in Now :
           update_order_status(s, r[1], now, r[2])

SpecOrders == InitOrders /\ [][NextOrders]_vars

-----------------------------------------------------------------------------
(* Two order status updates in flight at once.  Each request is a task of   *)
(* its own; the tasks share the store, and each update_one is one atomic    *)
(* operation of the store.  req, resp and steps hold one entry per request; *)
(* the store answers every write.                                           *)

Racers == {1, 2}

\* Utc::now() as each request reads it
RaceNow(r) == IF r = 1 THEN "2025-02-01T00:00:00+00:00" ELSE "2025-02-01T00:00:01+00:00"

RaceForms ==
    {[order_id |-> id, status |-> status] :
         id \in {OidStr("2"), OidStr("3")},
         status \in {"shipped", "completed", "cancelled", "refunded"}}

\* both requests are an admin's, on the same order
InitRace ==
    /\ session = [s \in Sessions |-> Some(Users[1].id)]
    /\ products = SeedProducts
    /\ badge_quotes = SeedQuotes
    /\ \E store \in OrderStores : orders = store[1] /\ completed_orders = store[2]
    /\ \E f \in [Racers -> RaceForms], sid \in [Racers -> Sessions] :
           /\ f[1].order_id = f[2].order_id
           /\ req = [r \in Racers |-> Request("POST /orders/update-status", sid[r], f[r])]
    /\ resp = [r \in Racers |-> Text(0, "")]
    /\ steps = [r \in Racers |-> <<>>]

Responded(r) == resp[r].kind = "json"

RaceFields_of_first(r) == [status |-> req[1].arg.status, updated_at |-> RaceNow(r)]

RaceFields(r) == [status |-> req[r].arg.status, updated_at |-> RaceNow(r)]

RaceUpdated(r) ==
    Json(TRUE, "Order status updated to " \o req[r].arg.status, Some(req[r].arg.order_id))

\* the handler up to the first store operation: gate, status check, id
race_begin(r) ==
    LET user_state == extract_user_state(AuthUser(req[r].sid))
        form       == req[r].arg
    IN  /\ steps[r] = <<>>
        /\ IF api_denied(user_state)
           THEN /\ resp' = [resp EXCEPT ![r] = Json(FALSE, "Access denied", <<>>)]
                /\ steps' = [steps EXCEPT ![r] = <<"gate">>]
           ELSE IF form.status \notin OrderTargetStatuses
           THEN /\ resp' = [resp EXCEPT ![r] = Json(FALSE, "Invalid status", <<>>)]
                /\ steps' = [steps EXCEPT ![r] = <<"gate", "validate">>]
           ELSE IF ~IsSome(parse_str(form.order_id))
           THEN /\ resp' = [resp EXCEPT ![r] = Json(FALSE, "Invalid order ID", <<>>)]
                /\ steps' = [steps EXCEPT ![r] = <<"gate", "validate", "parse_id">>]
           ELSE /\ steps' = [steps EXCEPT ![r] = <<"gate", "validate", "parse_id">>]
                /\ UNCHANGED resp
        /\ UNCHANGED <<session, stores, req>>

\* orders_collection.update_one(filter, update_doc).await
race_update_active(r) ==
    LET result == update_one(orders, parse_str(req[r].arg.order_id)[1], RaceFields(r))
    IN  /\ steps[r] = <<"gate", "validate", "parse_id">>
        /\ ~Responded(r)
        /\ steps' = [steps EXCEPT ![r] = @ \o <<"orders.update_one">>]
        /\ orders' = result.coll
        /\ resp' = IF Matched(result) THEN [resp EXCEPT ![r] = RaceUpdated(r)] ELSE resp
        /\ UNCHANGED <<session, products, completed_orders, badge_quotes, req>>

\* completed_orders_collection.update_one(filter, update_doc).await
race_update_completed(r) ==
    LET result == update_one(completed_orders, parse_str(req[r].arg.order_id)[1],
                             RaceFields(r))
    IN  /\ steps[r] = <<"gate", "validate", "parse_id", "orders.update_one">>
        /\ ~Responded(r)
        /\ steps' = [steps EXCEPT ![r] = @ \o <<"completed.update_one">>]
        /\ completed_orders' = result.coll
        /\ resp' = [resp EXCEPT ![r] =
                        IF Matched(result) THEN RaceUpdated(r)
                        ELSE Json(FALSE, "Order not found in either collection", <<>>)]
        /\ UNCHANGED <<session, products, orders, badge_quotes, req>>

NextRace ==
    \/ \E r \in Racers : race_begin(r)
    \/ \E r \in Racers : race_update_active(r)
    \/ \E r \in Racers : race_update_completed(r)

SpecRace == InitRace /\ [][NextRace]_vars

-----------------------------------------------------------------------------
(* The product form validation on its own *)

Repeat(c, n) == [i \in 1..n |-> c]

FormNames ==
    {<<>>, <<" ", " ">>, <<"C", "a", "t">>, Repeat("a", MaxNameLen),
     Repeat("a", MaxNameLen + 1), Repeat("U+00E9", 128)}

FormPrices ==
    {<<>>, <<"a", "b", "c">>, <<"-", "1">>, <<"0">>, <<"-", "0">>,
     <<" ", "1", "9", ".", "9", "9", " ">>,
     <<"9", "9", "9", "9", "9", "9", ".", "9", "9">>,
     <<"9", "9", "9", "9", "9", "9", ".", "9", "9", "1">>,
     <<"1", "0", "0", "0", "0", "0", "0">>, <<"1", "e", "3">>, <<"1", "e", "7">>,
     <<"N", "a", "N">>, <<"i", "n", "f">>, <<"-", "i", "n", "f">>}

FormQuantities ==
    {<<>>, <<"x">>, <<"-", "1">>, <<"0">>, <<" ", "1", "0">>, <<"1", ".", "5">>,
     <<"9", "9", "9", "9", "9", "9">>, <<"1", "0", "0", "0", "0", "0", "0">>,
     <<"2", "1", "4", "7", "4", "8", "3", "6", "4", "8">>}

FormDescriptions ==
    {<<>>, Repeat("d", MaxDescriptionLen), Repeat("d", MaxDescriptionLen + 1)}

FormInputs ==
    {[name |-> n, price |-> p, quantity |-> q, description |-> d, adoptable |-> <<>>] :
        n \in FormNames, p \in FormPrices, q \in FormQuantities, d \in FormDescriptions}

InitForm ==
    /\ session = [s \in Sessions |-> <<>>]
    /\ products = SeedProducts
    /\ orders = SeedOrders
    /\ completed_orders = SeedCompletedOrders
    /\ badge_quotes = SeedQuotes
    /\ \E form \in FormInputs : req = Request("validate_product_form", 1, form)
    /\ resp = Text(0, "")
    /\ steps = <<>>

\* validate_product_form applied to the form
validate_form ==
    /\ steps = <<>>
    /\ steps' = <<"validate">>
    /\ resp' = [kind |-> "validation", status |-> 0,
                result |-> validate_product_form(req.arg)]
    /\ UNCHANGED <<session, stores, req>>

NextForm == validate_form

SpecForm == InitForm /\ [][NextForm]_vars

-----------------------------------------------------------------------------
(* The quote manager in detail: several stores, every status filter, every  *)
(* read fault, pages of two quotes                                          *)

\* a CustomBadgeQuote document
QuoteDoc(c, status, day) ==
    [id |-> OidStr(c), email |-> "fan@example.com", double_sided |-> FALSE,
     estimated_price |-> 1250, status |-> status, created_at |-> Stamp(day),
     updated_at |-> "2025-01-01T12:00:00Z"]

\* the contents of the quotes collection: the seeded quote; four quotes of
\* three statuses, stored in another order than they were created
QuoteStores ==
    {SeedQuotes,
     <<QuoteDoc("4", "pending", "3"), QuoteDoc("6", "quoted", "1"),
       QuoteDoc("7", "pending", "5"), QuoteDoc("8", "completed", "2")>>}

InitQuotes ==
    /\ session = [s \in Sessions |-> <<>>]
    /\ products = SeedProducts
    /\ orders = SeedOrders
    /\ completed_orders = SeedCompletedOrders
    /\ badge_quotes \in QuoteStores
    /\ req = Request("none", 1, <<>>)
    /\ resp = Text(0, "")
    /\ steps = <<>>

\* the store reads of list_quotes that can fail
QuoteReadFaults == {"quotes.count", "quotes.find", "quotes.collect"}

QuotePageParams ==
    {[page |-> p, page_size |-> k, status_filter |-> f] :
        p \in {<<>>} \cup {Some(W(n)) : n \in 1..MaxPage},
        k \in {<<>>, Some(W(0)), Some(W(2))},
        f \in {<<>>, Some("all"), Some("pending"), Some("quoted"), Some("lost")}}

QuoteListRequests ==
    {<<params, {}, TRUE>> : params \in QuotePageParams}
        \cup {<<[page |-> Some(U32Max), page_size |-> Some(W(2)), status_filter |-> <<>>],
                {}, checks>> : checks \in BOOLEAN}
        \cup {<<[page |-> <<>>, page_size |-> k, status_filter |-> <<>>], {f}, TRUE>> :
                 k \in {<<>>, Some(W(2))}, f \in QuoteReadFaults}

QuoteUpdateRequests ==
    {<<[quote_id |-> id, status |-> status], TRUE>> :
         id \in {OidStr("4"), OidStr("6"), OidStr("9"), MalformedId},
         status \in {"quoted", "accepted", "refunded"}}
        \cup {<<[quote_id |-> OidStr("4"), status |-> "quoted"], FALSE>>}

NextQuotes ==
    \/ \E s \in OrderSessions, r \in {<<c, TRUE, TRUE>> : c \in Logins} :
           handle_login(s, r[1], r[2], r[3])
    \/ \E s \in OrderSessions, r \in QuoteListRequests : list_quotes(s, r[1], r[2], r[3])
    \/ \E s \in OrderSessions, r \in QuoteUpdateRequests, now \in Now :
           update_quote_status(s, r[1], now, r[2])

SpecQuotes == InitQuotes /\ [][NextQuotes]_vars

-----------------------------------------------------------------------------
(* Status updates on stores of several documents: an admin is logged in and *)
(* updates orders and quotes                                                *)

InitUpdates ==
    /\ session = [s \in Sessions |-> Some(Users[1].id)]
    /\ products = SeedProducts
    /\ badge_quotes \in QuoteStores
    /\ \E store \in OrderStores : orders = store[1] /\ completed_orders = store[2]
    /\ req = Request("none", 1, <<>>)
    /\ resp = Text(0, "")
    /\ steps = <<>>

StatusOrderRequests ==
    {<<[order_id |-> id, status |-> status], {}>> :
         id \in {OidStr("2"), OidStr("3"), OidStr("8"), OidStr("9")},
         status \in {"shipped", "cancelled"}}

StatusQuoteRequests ==
    {<<[quote_id |-> id, status |-> status], TRUE>> :
         id \in {OidStr("4"), OidStr("6"), OidStr("9")},
         status \in {"quoted", "cancelled"}}

NextUpdates ==
    \/ \E s \in OrderSessions, r \in StatusOrderRequests, now \in Now :
           update_order_status(s, r[1], now, r[2])
    \/ \E s \in OrderSessions, r \in StatusQuoteRequests, now \in Now :
           update_quote_status(s, r[1], now, r[2])

SpecUpdates == InitUpdates /\ [][NextUpdates]_vars

-----------------------------------------------------------------------------
(* A quote listing and a quote status update in flight at once.  The two   *)
(* requests are tasks of their own; the listing issues count_documents and  *)
(* find as two operations of the store, and the update's update_one may be  *)
(* applied before, between or after them.  req, resp and steps hold one     *)
(* entry per task; the store answers every operation.                       *)

QuoteTasks == {"list", "update"}

QuoteRaceParams ==
    {[page |-> <<>>, page_size |-> k, status_filter |-> f] :
        k \in {<<>>, Some(W(2))},
        f \in {<<>>, Some("pending"), Some("quoted")}}

QuoteRaceForms ==
    {[quote_id |-> id, status |-> status] :
        id \in {OidStr("4"), OidStr("6")}, status \in {"quoted", "cancelled"}}

\* an admin sends both requests
InitQuoteRace ==
    /\ session = [s \in Sessions |-> Some(Users[1].id)]
    /\ products = SeedProducts
    /\ orders = SeedOrders
    /\ completed_orders = SeedCompletedOrders
    /\ badge_quotes \in QuoteStores
    /\ \E params \in QuoteRaceParams, form \in QuoteRaceForms, sid \in [QuoteTasks -> Sessions] :
           req = [list   |-> Request("GET /quotes", sid["list"], params),
                  update |-> Request("POST /quotes/update-status", sid["update"], form)]
    /\ resp = [task \in QuoteTasks |-> Text(0, "")]
    /\ steps = [task \in QuoteTasks |-> <<>>]

\* the quotes that match the listing's filter now
MatchingQuotes ==
    LET params        == req["list"].arg
        status_filter == IF IsSome(params.status_filter) THEN params.status_filter[1]
                         ELSE "all"
        Keep(q)       == status_filter = "all" \/ q.status = status_filter
    IN  SelectSeq(badge_quotes, Keep)

\* list_quotes up to its first store operation: the gate and the page window
quotes_begin ==
    LET user_state == extract_user_state(AuthUser(req["list"].sid))
    IN  /\ steps["list"] = <<>>
        /\ IF ~user_state.is_authenticated
           THEN /\ resp' = [resp EXCEPT !["list"] = Redirect(LoginPath)]
                /\ steps' = [steps EXCEPT !["list"] = <<"gate">>]
           ELSE IF ~user_state.is_admin
           THEN /\ resp' = [resp EXCEPT !["list"] = Forbidden]
                /\ steps' = [steps EXCEPT !["list"] = <<"gate">>]
           ELSE /\ steps' = [steps EXCEPT !["list"] = <<"gate", "skip">>]
                /\ UNCHANGED resp
        /\ UNCHANGED <<session, stores, req>>

\* quotes_collection.count_documents(filter).await: the task now holds
\* total_count
quotes_count ==
    /\ steps["list"] = <<"gate", "skip">>
    /\ steps' = [steps EXCEPT !["list"] = @ \o <<"quotes.count">>]
    /\ resp' = [resp EXCEPT !["list"] =
                    [kind |-> "counted", total_count |-> W(Len(MatchingQuotes))]]
    /\ UNCHANGED <<session, stores, req>>

\* quotes_collection.find(filter).skip(..).limit(..).sort(..).await, and the
\* rest of the handler
quotes_fetch ==
    LET params     == req["list"].arg
        page       == EffectivePage(params.page)
        page_size  == EffectivePageSize(params.page_size)
        quotes     == FindSortedWindow(MatchingQuotes, Skip(page, page_size).val, page_size)
        pagination == create_pagination_info_quotes(page, page_size,
                                                    resp["list"].total_count)
    IN  /\ steps["list"] = <<"gate", "skip", "quotes.count">>
        /\ steps' = [steps EXCEPT !["list"] =
                         @ \o <<"quotes.find", "quotes.collect", "paginate">>]
        /\ resp' = [resp EXCEPT !["list"] =
                        Html(QuotePage([i \in DOMAIN quotes |-> quote_to_display(quotes[i])],
                                       pagination.info,
                                       IF IsSome(params.status_filter)
                                       THEN params.status_filter[1] ELSE "all",
                                       "", extract_user_state(AuthUser(req["list"].sid))))]
        /\ UNCHANGED <<session, stores, req>>

\* update_quote_status, whose one store operation is its update_one
quote_update ==
    LET form   == req["update"].arg
        obj_id == parse_str(form.quote_id)
        result == update_one(badge_quotes, obj_id[1],
                             [status |-> form.status,
                              updated_at |-> "2025-02-01T00:00:00+00:00"])
    IN  /\ steps["update"] = <<>>
        /\ IF api_denied(extract_user_state(AuthUser(req["update"].sid)))
           THEN /\ resp' = [resp EXCEPT !["update"] = Json(FALSE, "Access denied", <<>>)]
                /\ steps' = [steps EXCEPT !["update"] = <<"gate">>]
                /\ UNCHANGED badge_quotes
           ELSE IF form.status \notin QuoteTargetStatuses
           THEN /\ resp' = [resp EXCEPT !["update"] = Json(FALSE, "Invalid status", <<>>)]
                /\ steps' = [steps EXCEPT !["update"] = <<"gate", "validate">>]
                /\ UNCHANGED badge_quotes
           ELSE IF ~IsSome(obj_id)
           THEN /\ resp' = [resp EXCEPT !["update"] = Json(FALSE, "Invalid quote ID", <<>>)]
                /\ steps' = [steps EXCEPT !["update"] = <<"gate", "validate", "parse_id">>]
                /\ UNCHANGED badge_quotes
           ELSE /\ resp' = [resp EXCEPT !["update"] =
                                IF Matched(result)
                                THEN Json(TRUE, "Quote status updated to " \o form.status,
                                          Some(form.quote_id))
                                ELSE Json(FALSE, "Quote not found", <<>>)]
                /\ steps' = [steps EXCEPT !["update"] =
                                 <<"gate", "validate", "parse_id", "quotes.update_one">>]
                /\ badge_quotes' = result.coll
        /\ UNCHANGED <<session, products, orders, completed_orders, req>>

NextQuoteRace ==
    \/ quotes_begin
    \/ quotes_count
    \/ quotes_fetch
    \/ quote_update

SpecQuoteRace == InitQuoteRace /\ [][NextQuoteRace]_vars

-----------------------------------------------------------------------------
(* Properties: the access gate *)

\* a session whose identity is a user with the admin flag
IsAdminSession(s) ==
    \E i \in DOMAIN Users : session[s] = Some(Users[i].id) /\ Users[i].is_admin

IsAnonymousSession(s) == session[s] = <<>>

WriteRoutes ==
    {"POST /products/edit/{id}", "DELETE /products/delete/{id}",
     "POST /orders/update-status", "POST /quotes/update-status"}

ApiRoutes ==
    {"DELETE /products/delete/{id}", "POST /orders/update-status",
     "POST /quotes/update-status"}

ProtectedHtmlRoutes ==
    {"GET /products", "GET /products/edit/{id}", "POST /products/edit/{id}",
     "GET /orders", "GET /quotes"}

EndsWith(s, p) == Len(s) >= Len(p) /\ SubSeq(s, Len(s) - Len(p) + 1, Len(s)) = p

\* the path a request of a protected HTML route was made to
RequestPath(r) ==
    CASE r.route = "GET /products" -> ProductsPath
      [] r.route = "GET /orders" -> OrdersPath
      [] r.route = "GET /quotes" -> QuotesPath
      [] OTHER -> ProductsEditPrefix \o r.arg.id

\* C1: over any sequence of requests a collection changes only in a request
\* whose session identity is an admin; on the four write routes the gate is
\* the first step, and for an anonymous or non-admin requester it is the only
\* step and every collection is left as it was.
C1_WritesOnlyByAdmin ==
    [][/\ stores' # stores => IsAdminSession(req'.sid)
       /\ req'.route \in WriteRoutes =>
              /\ Len(steps') >= 1 /\ steps'[1] = "gate"
              /\ ~IsAdminSession(req'.sid) => steps' = <<"gate">> /\ stores' = stores]_vars

\* a non-admin is turned away at the gate of a write route, in a run where an
\* admin has written before
C1_Witness ==
    /\ req.route = "DELETE /products/delete/{id}"
    /\ IsSome(session[req.sid]) /\ ~IsAdminSession(req.sid)
    /\ steps = <<"gate">>
    /\ products = SeedProducts
    /\ orders # SeedOrders

\* C2: on every protected HTML route a request with no authenticated session
\* is redirected to the login page, and the redirect carries the requested
\* path as its intended-destination parameter.
C2_LoginRedirectKeepsPath ==
    req.route \in ProtectedHtmlRoutes /\ IsAnonymousSession(req.sid) =>
        /\ resp.kind = "redirect"
        /\ StartsWith(resp.location, LoginPath)
        /\ EndsWith(resp.location, RequestPath(req))

\* C3: on the API-style routes a request not authenticated as an admin gets
\* the "access denied" JSON body together with HTTP status 403.
C3_ApiDenied403 ==
    req.route \in ApiRoutes /\ ~IsAdminSession(req.sid) =>
        /\ resp.kind = "json"
        /\ ~resp.json.success
        /\ resp.json.message = "Access denied"
        /\ resp.status = 403

\* C4: on the dashboard and every protected HTML route the gate decides three
\* ways: anonymous is redirected to /login, an authenticated non-admin gets
\* 403 with the plain denial body and no step beyond the gate (no store
\* access), and an admin proceeds; the dashboard then redirects to the product
\* list.
C4_ThreeWayGate ==
    req.route \in ProtectedHtmlRoutes \cup {"GET /"} =>
        IF IsAnonymousSession(req.sid)
        THEN resp = Redirect(LoginPath) /\ steps = <<"gate">>
        ELSE IF ~IsAdminSession(req.sid)
        THEN resp = Text(403, "Access denied - Admin privileges required")
                 /\ steps = <<"gate">>
        ELSE /\ resp # Redirect(LoginPath)
             /\ resp.status # 403
             /\ steps[1] = "gate"
             /\ req.route = "GET /" => resp = Redirect(ProductsPath)
             /\ req.route # "GET /" => Len(steps) > 1

\* an authenticated non-admin is refused the product edit form
C4_Witness ==
    /\ req.route = "GET /products/edit/{id}"
    /\ IsSome(session[req.sid]) /\ ~IsAdminSession(req.sid)
    /\ resp.status = 403
    /\ steps = <<"gate">>

\* C5: the calculator page is rendered only for a session whose identity is
\* an admin.
C5_CalculatorAdminOnly ==
    req.route = "GET /calculator" /\ resp.kind = "html" => IsAdminSession(req.sid)

-----------------------------------------------------------------------------
(* Properties: login, logout and the session *)

\* the response is the login page carrying this error
LoginPageWith(r, error) ==
    r.kind = "html" /\ r.page.template = "login" /\ r.page.error = error

\* a user of exactly this username exists and its stored hash is the hash of
\* the submitted password under the stored salt
CredentialsMatch(creds) ==
    \E i \in DOMAIN Users :
        /\ Users[i].username = creds.username
        /\ Users[i].password_hash =
               hash_password(creds.password, Users[i].password_hash.salt)

\* C6: after a successful login the redirect target is the submitted `next`
\* exactly when `next` begins with "/" and does not begin with "//", and is
\* "/products" for every other value, absent and empty included; so the target
\* always begins with a single "/".
C6_SafeRedirectTarget ==
    req.route = "POST /login" /\ resp.kind = "redirect" =>
        LET next     == req.arg.next
            accepted == /\ IsSome(next)
                        /\ Len(next[1]) >= 1 /\ next[1][1] = "/"
                        /\ ~(Len(next[1]) >= 2 /\ next[1][2] = "/")
        IN  /\ accepted => resp.location = next[1]
            /\ ~accepted => resp.location = ProductsPath
            /\ resp.location[1] = "/"
            /\ Len(resp.location) >= 2 => resp.location[2] # "/"

\* a login submitting the protocol-relative "//h" lands on /products
C6_Witness ==
    /\ req.route = "POST /login"
    /\ req.arg.next = Some(<<"/", "/", "h">>)
    /\ resp = Redirect(ProductsPath)
    /\ IsSome(session[req.sid])

\* C7: a login attempt gets past authenticate (redirect, or the page of a
\* failed session write) only when a user of exactly the submitted username
\* exists and the password verifies against that user's hash; when the store
\* answers and they do not match, whether for want of the user or for a wrong
\* password, the answer is the login page with "Bad credentials", determined
\* by the form and the session alone, and the session keeps the binding it
\* had: the attempt binds no identity.
C7_AuthenticateOnlyOnMatch ==
    [][req'.route = "POST /login" /\ ~LoginPageWith(resp', "Server error") =>
          IF CredentialsMatch(req'.arg)
          THEN resp'.kind = "redirect" \/ LoginPageWith(resp', "Internal error")
          ELSE /\ resp' = Html(LoginPage("Bad credentials",
                                         unwrap_or_default(req'.arg.next),
                                         IF IsSome(session[req'.sid])
                                         THEN LET u == get_user(session[req'.sid][1])[1]
                                              IN  UserStateNew(TRUE, u.username, u.is_admin)
                                         ELSE UserStateDefault))
               /\ session' = session]_vars

\* a wrong password for an existing user: verified, refused, nothing bound
C7_Witness ==
    /\ req.route = "POST /login"
    /\ req.arg.username = "admin" /\ req.arg.password = "pw-staff"
    /\ LoginPageWith(resp, "Bad credentials")
    /\ steps = <<"users.find_one", "verify_password">>
    /\ IsAnonymousSession(req.sid)

\* C8: every authentication attempt the store answers runs a password
\* verification, the attempt for an unknown username included.
C8_AlwaysVerifies ==
    req.route = "POST /login" /\ ~LoginPageWith(resp, "Server error") =>
        \E i \in DOMAIN steps : steps[i] = "verify_password"

\* C9: over any sequence of logins, logouts and page requests a session gains
\* an identity only by a successful login on it and loses it only by a logout
\* on it; a failed login (bad credentials, store fault, session fault) leaves
\* the session as it was; a logout always answers with a redirect to "/", and
\* when clearing succeeded the session is anonymous; and a session with no
\* identity is treated as anonymous by every protected route.
C9_SessionLifetime ==
    [][/\ \A s \in Sessions :
              session'[s] # session[s] =>
                  /\ req'.sid = s
                  /\ IsSome(session'[s]) =>
                         req'.route = "POST /login" /\ resp'.kind = "redirect"
                  /\ ~IsSome(session'[s]) => req'.route = "GET /logout"
       /\ req'.route = "POST /login" =>
              IF resp'.kind = "redirect"
              THEN IsSome(session'[req'.sid])
              ELSE session' = session
       /\ req'.route = "GET /logout" =>
              /\ resp' = Redirect(RootPath)
              /\ steps' = <<"logout">> => ~IsSome(session'[req'.sid])
       /\ ~IsSome(session[req'.sid]) =>
              /\ req'.route \in ProtectedHtmlRoutes \cup {"GET /"} =>
                     resp' = Redirect(LoginPath)
              /\ req'.route \in ApiRoutes =>
                     resp'.json.message = "Access denied" /\ stores' = stores
              /\ req'.route = "GET /quotes/image/{filename}" => resp'.status = 403]_vars

\* after an admin's login, delete and logout the product list is asked for
\* and the request is sent to the login page
C9_Witness ==
    /\ Len(products) < Len(SeedProducts)
    /\ req.route = "GET /products"
    /\ IsAnonymousSession(req.sid)
    /\ resp = Redirect(LoginPath)

-----------------------------------------------------------------------------
(* Properties: the pagination engine *)

\* the PaginationInfo of the specification, in unbounded arithmetic
ExpectedPagination(page, page_size, total_items) ==
    LET total_pages == WMax(W(1), WCeilDiv(total_items, page_size))
    IN  [current_page |-> page,
         total_pages  |-> total_pages,
         has_prev     |-> WLess(W(1), page),
         has_next     |-> WLess(page, total_pages),
         start_item   |-> IF total_items = W(0) THEN W(0)
                          ELSE WAdd(WMul(WSub(page, W(1)), page_size), W(1)),
         end_item     |-> IF total_items = W(0) THEN W(0)
                          ELSE WMin(WMul(page, page_size), total_items),
         total_items  |-> total_items]

\* C10: for every page >= 1, 1 <= page_size <= 100 and total_items >= 0 both
\* copies of create_pagination_info return, in either build, the
\* PaginationInfo of the specification.
C10_PaginationFormula ==
    steps = <<"paginate">> =>
        LET expected == ExpectedPagination(req.arg.current_page, req.arg.page_size,
                                           req.arg.total_items)
        IN  /\ ~resp.orders.panic /\ resp.orders.info = expected
            /\ ~resp.quotes.panic /\ resp.quotes.info = expected

-----------------------------------------------------------------------------
(* Properties: the page window *)

\* C11: whatever the page and page_size query values of GET /orders and
\* GET /quotes, the effective page is at least 1 (1 when absent) and the
\* effective page size lies in 1..100 (10 when absent).
C11_WindowInsideDomain ==
    steps # <<>> =>
        /\ WLess(W(0), resp.page)
        /\ req.arg.page = <<>> => resp.page = W(1)
        /\ resp.page_size \in 1..MAX_PAGE_SIZE
        /\ req.arg.page_size = <<>> => resp.page_size = DEFAULT_PAGE_SIZE

\* C12: for every page a request can carry and every effective page size up
\* to 100 the skip is the mathematical (page - 1) * page_size, and neither
\* the skip nor start_item nor end_item overflows 32 bits or wraps around.
C12_NoOverflow ==
    steps # <<>> /\ resp.page_size <= MAX_PAGE_SIZE =>
        LET offset == WMul(WSub(resp.page, W(1)), resp.page_size)
            start  == IF req.arg.total_items = W(0) THEN W(0) ELSE WAdd(offset, W(1))
            end    == IF req.arg.total_items = W(0) THEN W(0)
                      ELSE WMin(WMul(resp.page, resp.page_size), req.arg.total_items)
        IN  /\ ~resp.skip.panic /\ resp.skip.val = offset
            /\ ~resp.orders.panic /\ ~resp.quotes.panic
            /\ resp.orders.info.start_item = start /\ resp.quotes.info.start_item = start
            /\ resp.orders.info.end_item = end /\ resp.quotes.info.end_item = end

-----------------------------------------------------------------------------
(* Properties: listing orders *)

\* the response is the order page of a listing in which no read failed
OrdersListed ==
    /\ req.route = "GET /orders"
    /\ resp.kind = "html"
    /\ \A i \in DOMAIN steps : steps[i] \notin {Failed(f) : f \in OrderReadFaults}

ShowCompleted == req.arg.show_completed = Some("true")

\* the orders a listing selects, active collection first
SelectedOrders ==
    LET Active(o)    == ShowCompleted \/ o.status \in {"pending", "failed", "cancelled"}
        Completed(o) == ShowCompleted \/ o.status \in {"paid", "processing", "shipped"}
    IN  SelectSeq(orders, Active) \o SelectSeq(completed_orders, Completed)

\* what tells one rendered order from another
OrderKey(o) == <<o.id, o.status, o.created_at>>

RequestedPage == IF req.arg.page = <<>> THEN 1 ELSE req.arg.page[1].lo

RequestedPageSize == IF req.arg.page_size = <<>> THEN 10 ELSE req.arg.page_size[1].lo

\* C13: without show_completed=true a listing selects exactly the active
\* orders with status pending, failed or cancelled and the completed orders
\* with status paid, processing or shipped; with it, every order of both
\* collections.  The count reported is the number selected, every order shown
\* is a selected one, and a page that has room for all shows them all.
C13_OrderSelection ==
    OrdersListed =>
        LET selected == {OrderKey(SelectedOrders[i]) : i \in DOMAIN SelectedOrders}
            shown    == {OrderKey(resp.page.orders[i]) : i \in DOMAIN resp.page.orders}
        IN  /\ resp.page.pagination.total_items = W(Len(SelectedOrders))
            /\ shown \subseteq selected
            /\ RequestedPage = 1 /\ Len(SelectedOrders) <= RequestedPageSize =>
                   shown = selected /\ Len(resp.page.orders) = Len(SelectedOrders)

\* one pending active order and one paid completed order, no show_completed:
\* both are listed
C13_Witness ==
    /\ OrdersListed
    /\ ~ShowCompleted
    /\ orders = SeedOrders /\ completed_orders = SeedCompletedOrders
    /\ {o.status : o \in {resp.page.orders[i] : i \in DOMAIN resp.page.orders}}
           = {"pending", "paid"}

\* the place of selected order i in the merged list: after every newer
\* order, and after the earlier-selected orders of the same timestamp
MergedPlace(i) ==
    LET C == SelectedOrders
    IN  1 + Cardinality({j \in DOMAIN C : StrCmp(C[j].created_at, C[i].created_at) = 1})
          + Cardinality({j \in 1..(i - 1) : C[j].created_at = C[i].created_at})

ReadFaulted(collection) ==
    /\ req.route = "GET /orders"
    /\ \E i \in DOMAIN steps :
           steps[i] \in {Failed(collection \o "." \o read) :
                            read \in {"find", "raw_find", "raw_collect", "collect"}}

\* C15: a store fault while list_orders reads the active collection aborts
\* the listing with an error page: no orders, a non-empty error message, the
\* pagination of an empty list, nothing of the completed collection, and a
\* rendered response rather than a crash.
C15_ActiveFaultAborts ==
    ReadFaulted("orders") =>
        /\ resp.kind = "html"
        /\ resp.page.orders = <<>>
        /\ resp.page.error_message # ""
        /\ resp.page.pagination.total_items = W(0)
        /\ resp.page.pagination.current_page = W(1)

\* C16: a store fault at any read of the completed collection is swallowed:
\* the listing completes with a normal page, without an error message, that
\* holds exactly the selected active orders, paginated as usual.
C16_CompletedFaultSwallowed ==
    ReadFaulted("completed") /\ ~ReadFaulted("orders") =>
        LET Active(o) == ShowCompleted \/ o.status \in {"pending", "failed", "cancelled"}
            active    == SelectSeq(orders, Active)
            shown     == IF resp.kind = "html" THEN resp.page.orders ELSE <<>>
        IN  /\ resp.kind = "html"
            /\ resp.page.error_message = ""
            /\ resp.page.pagination.total_items = W(Len(active))
            /\ {OrderKey(shown[i]) : i \in DOMAIN shown}
                   \subseteq {OrderKey(active[i]) : i \in DOMAIN active}
            /\ RequestedPage = 1 /\ Len(active) <= RequestedPageSize =>
                   Len(shown) = Len(active)

-----------------------------------------------------------------------------
(* Properties: updating an order's status *)

HasOrder(coll, id) == \E i \in DOMAIN coll : coll[i].id = id

\* the statuses of the orders of a collection that have the id
StatusesOf(coll, id) == {coll[i].status : i \in {j \in DOMAIN coll : coll[j].id = id}}

\* the step is an order status update that got as far as the store
OrderUpdateAttempted ==
    /\ req'.route = "POST /orders/update-status"
    /\ Len(steps') >= 4
    /\ steps'[4] = "orders.update_one"

\* C17: update_order_status writes the active collection first and goes to
\* the completed collection only when the active update matched nothing; a
\* request changes at most one collection.  An id only in the completed
\* collection is updated there and reported as success; an id in both is
\* updated in the active collection only; an id in neither is reported as
\* not found and nothing changes.
C17_ActiveThenCompleted ==
    [][OrderUpdateAttempted =>
          LET id          == req'.arg.order_id
              in_active   == HasOrder(orders, id)
              in_complete == HasOrder(completed_orders, id)
              fallback    == Len(steps') >= 5
              written     == Len(steps') = 5 /\ steps'[5] = "completed.update_one"
          IN  /\ fallback <=> ~in_active
              /\ orders' = orders \/ completed_orders' = completed_orders
              /\ in_active =>
                     /\ resp'.json.success
                     /\ StatusesOf(orders', id) = {req'.arg.status}
                     /\ completed_orders' = completed_orders
              /\ ~in_active /\ in_complete /\ written =>
                     /\ resp'.json.success
                     /\ StatusesOf(completed_orders', id) = {req'.arg.status}
                     /\ orders' = orders
              /\ ~in_active /\ ~in_complete /\ written =>
                     /\ resp'.json = [success |-> FALSE,
                                      message |-> "Order not found in either collection",
                                      id |-> <<>>]
                     /\ orders' = orders /\ completed_orders' = completed_orders]_vars

\* an order that is only in the completed collection was shipped there
C17_Witness ==
    /\ req.route = "POST /orders/update-status"
    /\ req.arg.order_id = OidStr("3")
    /\ steps = <<"gate", "validate", "parse_id", "orders.update_one", "completed.update_one">>
    /\ resp.json.success
    /\ ~HasOrder(orders, OidStr("3"))
    /\ StatusesOf(completed_orders, OidStr("3")) = {"shipped"}

-----------------------------------------------------------------------------
(* Properties: the allowed target statuses *)

\* the statuses an admin may set, per manager
AllowedStatuses(route) ==
    IF route = "POST /orders/update-status"
    THEN {"paid", "processing", "shipped", "completed", "cancelled"}
    ELSE {"pending", "quoted", "accepted", "completed", "cancelled"}

\* the step is an admin's status update with a target status outside the
\* manager's set
InvalidStatusRequested ==
    /\ req'.route \in {"POST /orders/update-status", "POST /quotes/update-status"}
    /\ IsAdminSession(req'.sid)
    /\ req'.arg.status \notin AllowedStatuses(req'.route)

\* every document's status is the one it started with or an allowed one
StatusesStayInDomain ==
    /\ \A i \in DOMAIN orders :
           orders[i].status
               \in {SeedOrders[i].status} \cup AllowedStatuses("POST /orders/update-status")
    /\ \A i \in DOMAIN completed_orders :
           completed_orders[i].status
               \in {SeedCompletedOrders[i].status}
                       \cup AllowedStatuses("POST /orders/update-status")
    /\ \A i \in DOMAIN badge_quotes :
           badge_quotes[i].status
               \in {SeedQuotes[i].status} \cup AllowedStatuses("POST /quotes/update-status")

\* C18: a status update whose target status is outside the manager's allowed
\* set is rejected with "Invalid status" before any store write and leaves
\* every document unchanged; so each order's and quote's status is always its
\* original status or a member of the allowed set.
C18_InvalidStatusRejected ==
    /\ [][InvalidStatusRequested =>
              /\ resp' = Json(FALSE, "Invalid status", <<>>)
              /\ steps' = <<"gate", "validate">>
              /\ UNCHANGED stores]_vars
    /\ []StatusesStayInDomain

\* an admin asked for the status "refunded" and was turned away, and an
\* allowed status was written before
C18_Witness ==
    /\ req.route = "POST /orders/update-status"
    /\ IsAdminSession(req.sid)
    /\ req.arg.status = "refunded"
    /\ resp = Json(FALSE, "Invalid status", <<>>)
    /\ \E i \in DOMAIN orders : orders[i].status = "shipped"

-----------------------------------------------------------------------------
(* Properties: store faults during a write *)

StoreWrites ==
    {"products.update_one", "products.delete_one", "orders.update_one",
     "completed.update_one", "quotes.update_one"}

\* how often the handler issued the write, failed or not
TimesIssued(trace, write) ==
    Cardinality({i \in DOMAIN trace : trace[i] \in {write, Failed(write)}})

\* the response tells the admin that the request failed
FailureResponse(r) ==
    \/ r.kind = "json" /\ ~r.json.success /\ r.json.message # ""
    \/ r.kind = "html" /\ r.page.template = "edit_product" /\ r.page.error_message # ""
    \/ r.kind = "text" /\ r.status \in {404, 500}

\* C20: a store fault during a write yields a failure response without
\* partial application.  A fault of the active-collection update of
\* update_order_status reports success:false, does not go on to the
\* completed collection and changes no order; a fault of the product update,
\* the product delete or the quote status update gives a failure response
\* and leaves the document as it was.  No write is issued twice.
C20_WriteFaultChangesNothing ==
    [][(\E i \in DOMAIN steps' : steps'[i] \in {Failed(w) : w \in StoreWrites}) =>
          /\ FailureResponse(resp')
          /\ UNCHANGED stores
          /\ \A w \in StoreWrites : TimesIssued(steps', w) <= 1
          /\ TimesIssued(steps', "orders.update_one") = 1
                 /\ Failed("orders.update_one") \in {steps'[i] : i \in DOMAIN steps'} =>
                 /\ resp'.kind = "json" /\ ~resp'.json.success
                 /\ TimesIssued(steps', "completed.update_one") = 0]_vars

\* the update of the pending order failed at the active collection: the
\* order is still pending
C20_Witness ==
    /\ req.route = "POST /orders/update-status"
    /\ steps = <<"gate", "validate", "parse_id", Failed("orders.update_one")>>
    /\ resp = Json(FALSE, DatabaseError("Database error"), <<>>)
    /\ StatusesOf(orders, req.arg.order_id) = {"pending"}

-----------------------------------------------------------------------------
(* Properties: two updates of one order at once *)

\* both requests ask for an allowed status
BothValid ==
    \A r \in Racers :
        req[r].arg.status \in {"paid", "processing", "shipped", "completed", "cancelled"}

\* the statuses of the raced order, in whichever collection holds it
RacedStatuses(active, completed) ==
    IF HasOrder(active, req[1].arg.order_id)
    THEN StatusesOf(active, req[1].arg.order_id)
    ELSE StatusesOf(completed, req[1].arg.order_id)

\* the request whose store update was applied by this step
Applying(r) ==
    /\ steps'[r] # steps[r]
    /\ Len(steps'[r]) >= 4
    /\ Responded(r)'

\* C19: two admin requests update the same existing order at the same time,
\* to the allowed statuses s1 and s2.  Under every interleaving both report
\* success; each applied update leaves the order with the status of the
\* request that applied it, so the final status is that of the update applied
\* last; and once both have responded nothing changes the order again.
C19_LastWriteWins ==
    /\ [](BothValid /\ (\A r \in Racers : Responded(r)) =>
              /\ \A r \in Racers : resp[r] = RaceUpdated(r)
              /\ RacedStatuses(orders, completed_orders)
                     \subseteq {req[r].arg.status : r \in Racers})
    /\ [][BothValid =>
              /\ \A r \in Racers :
                     Applying(r) =>
                         RacedStatuses(orders', completed_orders') = {req[r].arg.status}
              /\ (\A r \in Racers : ~Applying(r)) =>
                     RacedStatuses(orders', completed_orders')
                         = RacedStatuses(orders, completed_orders)
              /\ (\A r \in Racers : Responded(r)) => UNCHANGED stores]_vars

\* the first request shipped the order, then the second cancelled it: both
\* were told of success and the order is cancelled
C19_Witness ==
    /\ req[1].arg.status = "shipped" /\ req[2].arg.status = "cancelled"
    /\ resp[1] = RaceUpdated(1) /\ resp[2] = RaceUpdated(2)
    /\ RacedStatuses(orders, completed_orders) = {"cancelled"}

-----------------------------------------------------------------------------
(* Properties: the product form *)

\* the rules of the product form, in the order they are applied, each with
\* whether the form violates it
FormRules(form) ==
    LET price    == parse_f64(Trim(form.price))
        quantity == parse_i32(Trim(form.quantity))
    IN  << Trim(form.name) = <<>>,
           Len(form.name) > 255,
           ~(price.ok /\ price.kind = "num" /\ ~F64Negative(price)
                 /\ ~F64ExceedsMaxPrice(price)),
           ~(quantity.ok /\ quantity.val >= 0 /\ quantity.val <= 999999),
           Len(form.description) > 5000 >>

\* the rule a message reports
RuleOf(msg) ==
    CASE msg = "Product name cannot be empty" -> 1
      [] msg = "Product name must be less than 255 characters" -> 2
      [] msg \in {"Price must be a valid number", "Price cannot be negative",
                  "Price cannot exceed 999,999.99"} -> 3
      [] msg \in {"Quantity must be a valid number", "Quantity cannot be negative",
                  "Quantity cannot exceed 999,999"} -> 4
      [] msg = "Description must be less than 5,000 characters" -> 5
      [] OTHER -> 0

\* C21: validate_product_form checks name non-empty, name at most 255
\* characters, price a non-negative number up to 999,999.99, quantity a
\* non-negative integer up to 999,999, description at most 5,000 characters,
\* in this order, and reports the first rule violated; a form that violates
\* none yields the parsed price and quantity, within those ranges.
C21_FirstViolationReported ==
    steps = <<"validate">> /\ resp.kind = "validation" =>
        LET rules    == FormRules(req.arg)
            violated == {i \in DOMAIN rules : rules[i]}
            result   == resp.result
        IN  IF violated = {}
            THEN /\ result.ok
                 /\ result.price.kind = "num"
                 /\ ~F64Negative(result.price) /\ ~F64ExceedsMaxPrice(result.price)
                 /\ result.quantity \in 0..999999
            ELSE /\ ~result.ok
                 /\ \A i \in violated : RuleOf(result.err) <= i
                 /\ RuleOf(result.err) \in violated

\* the step is an admin's product update, with a well-formed id, of a form
\* that breaks a rule
InvalidFormPosted ==
    /\ req'.route = "POST /products/edit/{id}"
    /\ IsAdminSession(req'.sid)
    /\ IsSome(parse_str(req'.arg.id))
    /\ \E i \in 1..5 : FormRules(req'.arg.form)[i]

\* the fields of a product that differ between two collections
ChangedProductFields(before, after) ==
    {f \in {"id", "name", "image_url", "price", "quantity", "description", "adoptable"} :
        \E i \in DOMAIN before : before[i][f] # after[i][f]}

-----------------------------------------------------------------------------
(* Properties: products that are not there *)

\* the step is an admin's product delete that reached the store
ProductDeleteIssued ==
    /\ req'.route = "DELETE /products/delete/{id}"
    /\ Len(steps') = 3
    /\ steps'[3] = "products.delete_one"

\* the step is an admin's product update that reached the store
ProductUpdateIssued ==
    /\ req'.route = "POST /products/edit/{id}"
    /\ Len(steps') = 4
    /\ steps'[4] = "products.update_one"

\* C23: deleting an existing product reports success and removes exactly
\* that product; deleting an id that is not (or no longer) there reports
\* "not found" as an ordinary failure response and leaves the collection
\* unchanged; updating an absent id reports "not found" and creates no
\* document.
C23_MissingIdsAreSafe ==
    [][/\ ProductDeleteIssued =>
              LET id      == req'.arg.id
                  Other(p) == p.id # id
              IN  IF HasOrder(products, id)
                  THEN /\ resp' = Json(TRUE, "Product deleted successfully", Some(id))
                       /\ products' = SelectSeq(products, Other)
                       /\ Len(products') = Len(products) - 1
                  ELSE /\ resp' = Json(FALSE, "Product not found", <<>>)
                       /\ products' = products
       /\ (ProductUpdateIssued /\ ~HasOrder(products, req'.arg.id)) =>
              (resp' = Text(404, "Product not found") /\ products' = products)]_vars

\* the seeded product was deleted, and the same delete was sent again
C23_Witness ==
    /\ req.route = "DELETE /products/delete/{id}"
    /\ req.arg.id = OidStr("1")
    /\ steps = <<"gate", "parse_id", "products.delete_one">>
    /\ resp = Json(FALSE, "Product not found", <<>>)
    /\ ~HasOrder(products, OidStr("1"))
    /\ Len(products) = Len(SeedProducts) - 1

-----------------------------------------------------------------------------
(* Properties: malformed identifiers *)

\* the identifier a request names, on the routes that take one
RequestedId(r) ==
    CASE r.route \in {"GET /products/edit/{id}", "POST /products/edit/{id}",
                      "DELETE /products/delete/{id}"} -> r.arg.id
      [] r.route = "POST /orders/update-status" -> r.arg.order_id
      [] r.route = "POST /quotes/update-status" -> r.arg.quote_id

\* 24 hexadecimal digits
WellFormedId(id) ==
    /\ Len(id) = 24
    /\ \A i \in DOMAIN id :
           id[i] \in {"0", "1", "2", "3", "4", "5", "6", "7", "8", "9",
                      "a", "b", "c", "d", "e", "f", "A", "B", "C", "D", "E", "F"}

\* the step is an admin's request, on a route that takes an identifier, with
\* an identifier that is not one
MalformedIdSent ==
    /\ req'.route \in {"GET /products/edit/{id}", "POST /products/edit/{id}",
                       "DELETE /products/delete/{id}", "POST /orders/update-status",
                       "POST /quotes/update-status"}
    /\ IsAdminSession(req'.sid)
    /\ ~WellFormedId(RequestedId(req'))

\* C24: a malformed identifier given to the product edit form, the product
\* update, the product delete, the order status update or the quote status
\* update never crashes the handler: the answer is a validation error, never
\* a 5xx, and the store is neither read nor written for that request.
C24_MalformedIdRejected ==
    [][MalformedIdSent =>
          /\ resp'.kind \in {"text", "json"}
          /\ resp'.kind = "text" => resp' = Text(400, "Invalid product ID")
          /\ resp'.kind = "json" =>
                 /\ resp'.status = 200
                 /\ ~resp'.json.success
                 /\ resp'.json.message
                        \in {"Invalid product ID", "Invalid order ID", "Invalid quote ID",
                             "Invalid status"}
          /\ \A i \in DOMAIN steps' : steps'[i] \in {"gate", "validate", "parse_id"}
          /\ UNCHANGED stores]_vars

\* an admin asked to ship an order by an identifier of 23 digits
C24_Witness ==
    /\ req.route = "POST /orders/update-status"
    /\ IsAdminSession(req.sid)
    /\ req.arg.order_id = ShortId /\ req.arg.status = "shipped"
    /\ resp = Json(FALSE, "Invalid order ID", <<>>)
    /\ steps = <<"gate", "validate", "parse_id">>

-----------------------------------------------------------------------------
(* Properties: listing quotes *)

\* the response answers an admin's listing of quotes in which no read failed
QuotesListed ==
    /\ req.route = "GET /quotes"
    /\ IsAdminSession(req.sid)
    /\ \A i \in DOMAIN steps : steps[i] \notin {Failed(f) : f \in QuoteReadFaults}

\* the quotes a listing selects
SelectedQuotes ==
    LET filter  == IF req.arg.status_filter = <<>> THEN "all" ELSE req.arg.status_filter[1]
        Keep(q) == filter = "all" \/ q.status = filter
    IN  SelectSeq(badge_quotes, Keep)

\* how many selected quotes are newer than selected quote i
NewerQuotes(i) ==
    Cardinality({j \in DOMAIN SelectedQuotes :
                    StrCmp(SelectedQuotes[j].created_at, SelectedQuotes[i].created_at) = 1})

\* C25: list_quotes reads one collection.  With status_filter absent or
\* "all" every quote is selected, otherwise the quotes whose status is the
\* filter; they are sorted newest first, the page shows what follows the
\* first (page-1)*page_size of them, at most page_size items, and
\* total_items is the number of quotes that match the filter.
C25_QuoteWindow ==
    QuotesListed =>
        LET n     == Len(SelectedQuotes)
            far   == req.arg.page # <<>> /\ req.arg.page[1].hi > 0
            first == IF far THEN n ELSE (RequestedPage - 1) * RequestedPageSize
            count == IF first >= n THEN 0
                     ELSE IF RequestedPageSize < n - first THEN RequestedPageSize
                     ELSE n - first
            shown == IF resp.kind = "html" THEN resp.page.quotes ELSE <<>>
        IN  /\ resp.kind = "html"
            /\ resp.page.pagination.total_items = W(n)
            /\ Len(shown) = count
            /\ \A r \in DOMAIN shown :
                   \E i \in DOMAIN SelectedQuotes :
                       /\ NewerQuotes(i) = first + r - 1
                       /\ shown[r].id = SelectedQuotes[i].id
                       /\ shown[r].status = SelectedQuotes[i].status

-----------------------------------------------------------------------------
(* Properties: listings when the store fails *)

\* a read of the product listing or of the quote listing failed
ListingReadFaulted ==
    /\ req.route \in {"GET /products", "GET /quotes"}
    /\ \E i \in DOMAIN steps :
           steps[i] \in {Failed(read) : read \in {"products.find", "products.collect",
                                                  "quotes.count", "quotes.find",
                                                  "quotes.collect"}}

\* C26: on the product and quote listing pages a fault of the store during
\* the read (issuing the query, counting, retrieving the results) gives a
\* normally rendered page with no items and a non-empty error message:
\* never an HTTP failure, never an empty list without a message.
C26_ListingFaultShown ==
    ListingReadFaulted =>
        /\ resp.kind = "html" /\ resp.status = 200
        /\ IF req.route = "GET /products" THEN resp.page.products = <<>>
           ELSE resp.page.quotes = <<>>
        /\ resp.page.error_message # ""

-----------------------------------------------------------------------------
(* Properties: badge images *)

\* the name starts with badge_ and has neither a parent-directory segment
\* nor a path separator
DirectChildName(name) ==
    /\ Len(name) >= 6
    /\ SubSeq(name, 1, 6) = <<"b", "a", "d", "g", "e", "_">>
    /\ \A i \in DOMAIN name : name[i] # "/"
    /\ \A i \in 1..(Len(name) - 1) : ~(name[i] = "." /\ name[i + 1] = ".")

\* the handler went to the file system
FileAccessed(trace) == \E i \in DOMAIN trace : trace[i] \in {"fs.read", Failed("fs.read")}

\* C27: serve_badge_image reads a file only for an admin and a filename that
\* starts with "badge_" and holds neither ".." nor a path separator; a
\* non-admin gets 403 and an invalid filename is rejected, both before any
\* file access, so the path read is a direct child of the private uploads
\* directory; a missing file yields not-found.
C27_ImageOnlyFromUploads ==
    [][req'.route = "GET /quotes/image/{filename}" =>
          LET name == req'.arg.filename
          IN  /\ FileAccessed(steps') =>
                     IsAdminSession(req'.sid) /\ DirectChildName(name)
              /\ ~IsAdminSession(req'.sid) =>
                     resp'.status = 403 /\ steps' = <<"gate">>
              /\ IsAdminSession(req'.sid) /\ ~DirectChildName(name) =>
                     resp'.status = 400 /\ steps' = <<"gate", "check_name">>
              /\ IsAdminSession(req'.sid) /\ DirectChildName(name)
                     /\ name \notin UploadedFiles =>
                     resp'.status = 404
              /\ resp'.kind = "bytes" => name \in UploadedFiles]_vars

\* an admin was served the uploaded badge
C27_Witness ==
    /\ req.route = "GET /quotes/image/{filename}"
    /\ IsAdminSession(req.sid)
    /\ req.arg.filename \in UploadedFiles
    /\ steps = <<"gate", "check_name", "fs.read">>
    /\ resp.kind = "bytes" /\ resp.status = 200 /\ resp.text = "image/png"

-----------------------------------------------------------------------------
(* Properties: what a status update leaves alone *)

\* after differs from before in the status and updated_at of one document
\* with the id, and in nothing else
OnlyStatusOfOne(before, after, id, status) ==
    /\ Len(after) = Len(before)
    /\ \E i \in DOMAIN before :
           /\ before[i].id = id
           /\ after[i].status = status
           /\ \A f \in DOMAIN before[i] \ {"status", "updated_at"} :
                  after[i][f] = before[i][f]
           /\ \A j \in DOMAIN before \ {i} : after[j] = before[j]

\* C28: a successful update_order_status or update_quote_status changes only
\* status and updated_at of the one matched document: the document stays in
\* the collection it was found in (no order moves or is copied between the
\* active and the completed collection), its other fields are unchanged and
\* so is every other document of every collection.
C28_OnlyStatusChanges ==
    [][/\ (req'.route = "POST /orders/update-status" /\ resp'.json.success) =>
              (/\ \/ /\ OnlyStatusOfOne(orders, orders', req'.arg.order_id,
                                        req'.arg.status)
                     /\ completed_orders' = completed_orders
                  \/ /\ OnlyStatusOfOne(completed_orders, completed_orders',
                                        req'.arg.order_id, req'.arg.status)
                     /\ orders' = orders
               /\ UNCHANGED <<products, badge_quotes>>)
       /\ (req'.route = "POST /quotes/update-status" /\ resp'.json.success) =>
              (/\ OnlyStatusOfOne(badge_quotes, badge_quotes', req'.arg.quote_id,
                                  req'.arg.status)
               /\ UNCHANGED <<products, orders, completed_orders>>)]_vars

\* the paid order of three completed orders was shipped: it is still the
\* first of the completed orders, and the active orders are as they were
C28_Witness ==
    /\ req.route = "POST /orders/update-status"
    /\ req.arg = [order_id |-> OidStr("3"), status |-> "shipped"]
    /\ resp.json.success
    /\ Len(completed_orders) = 3
    /\ completed_orders[1].id = OidStr("3") /\ completed_orders[1].status = "shipped"
    /\ completed_orders[2] = OrderDoc("7", "completed", "3")
    /\ orders = <<OrderDoc("2", "pending", "1"), OrderDoc("5", "failed", "3"),
                  OrderDoc("6", "paid", "5")>>

-----------------------------------------------------------------------------
(* Properties: the pagination info of an order listing *)

\* a <= b, for wide numbers
WLeq(a, b) == ~WLess(b, a)

\* C29: in every successful list_orders response with total_items > 0 and
\* 1 <= page <= total_pages the pagination info fits the rendered slice:
\* 1 <= start_item <= end_item <= total_items, and the number of orders
\* rendered is end_item - start_item + 1.
C29_InfoFitsSlice ==
    LET info == resp.page.pagination
    IN  (/\ OrdersListed
         /\ WLess(W(0), info.total_items)
         /\ WLeq(W(1), info.current_page)
         /\ WLeq(info.current_page, info.total_pages)) =>
            /\ WLeq(W(1), info.start_item)
            /\ WLeq(info.start_item, info.end_item)
            /\ WLeq(info.end_item, info.total_items)
            /\ W(Len(resp.page.orders)) = WAdd(WSub(info.end_item, info.start_item), W(1))

-----------------------------------------------------------------------------
(* Properties: a quote listing beside a status update *)

\* C30: in every list_quotes response, also when an update_quote_status
\* running at the same time changes which quotes match the filter between
\* the count and the fetch, the number of quotes rendered does not exceed
\* the total_items of the same response, and is 0 when total_items is 0.
C30_RenderedWithinTotal ==
    resp["list"].kind = "html" =>
        LET rendered == Len(resp["list"].page.quotes)
            total    == resp["list"].page.pagination.total_items
        IN  /\ WLeq(W(rendered), total)
            /\ total = W(0) => rendered = 0

====
